---- MODULE Spec2Model ----
(***************************************************************************)
(* ZenAPI / AstraAPI request routing and dispatch core.                    *)
(*                                                                         *)
(* Router (src/core/router.ts): trie registration and matching.            *)
(* AstraAPI (src/core/server.ts): handleRequest, executeMiddlewareChain,   *)
(* resolveParameters, createResponse.                                      *)
(*                                                                         *)
(* A string is a sequence of one-character strings, so that the path       *)
(* normalisation and splitting are computed character by character.        *)
(***************************************************************************)
EXTENDS Integers, Sequences, FiniteSets, TLC

VARIABLES
    router,        \* the Router object: root, controllers, globalMiddlewares, prefix
    console,       \* what console.warn has printed, in order
    addRouteLog,   \* the arguments of every addRoute call so far, in order
    registrations, \* how many registerController calls were made
    lastOp,        \* the last Router call made and what it returned
    options,       \* the merged options of the AstraAPI server
    requests,      \* the requests of the AstraAPI server, by connection
    container,     \* the global Container: providers, singletons, resolving
    resolutions    \* the calls of Container.resolve under way, by caller and position

vars == <<router, console, addRouteLog, registrations, lastOp, options, requests,
          container, resolutions>>

(***************************************************************************)
(* Bounds of the model                                                     *)
(***************************************************************************)
MaxRegistrations == 2      \* registerController calls in one run
MaxGlobal == 2             \* Router.use calls in one run

(***************************************************************************)
(* Strings                                                                 *)
(***************************************************************************)
Slash == <<"/">>
EmptyString == <<>>

\* s.startsWith(c) for a one-character c
startsWith(s, c) == Len(s) > 0 /\ s[1] = c
\* s.endsWith(c) for a one-character c
endsWith(s, c) == Len(s) > 0 /\ s[Len(s)] = c

RECURSIVE collapseSlashes(_)
\* path.replace(/\/+/g, "/")
collapseSlashes(path) ==
    IF Len(path) <= 1 THEN path
    ELSE IF path[1] = "/" /\ path[2] = "/" THEN collapseSlashes(Tail(path))
    ELSE <<path[1]>> \o collapseSlashes(Tail(path))

\* Router.normalizePath
normalizePath(path) ==
    LET collapsed == collapseSlashes(path)
        led == IF ~startsWith(collapsed, "/") THEN Slash \o collapsed ELSE collapsed
    IN  IF Len(led) > 1 /\ endsWith(led, "/") THEN SubSeq(led, 1, Len(led) - 1) ELSE led

RECURSIVE split(_, _)
\* s.split("/"), with cur the piece being read: the pieces, empty ones included
split(s, cur) ==
    IF s = <<>> THEN <<cur>>
    ELSE IF s[1] = "/" THEN <<cur>> \o split(Tail(s), <<>>)
    ELSE split(Tail(s), Append(cur, s[1]))

\* array.filter(Boolean) on an array of strings: drops the empty strings
filterBoolean(pieces) == SelectSeq(pieces, LAMBDA p : p # <<>>)

RECURSIVE stripLeading(_)
\* p.replace(/^\/+/, "")
stripLeading(p) == IF startsWith(p, "/") THEN stripLeading(Tail(p)) ELSE p

RECURSIVE stripTrailing(_)
\* p.replace(/\/+$/, "")
stripTrailing(p) ==
    IF endsWith(p, "/") THEN stripTrailing(SubSeq(p, 1, Len(p) - 1)) ELSE p

RECURSIVE join(_)
\* parts.join("/")
join(parts) ==
    IF parts = <<>> THEN <<>>
    ELSE IF Len(parts) = 1 THEN parts[1]
    ELSE parts[1] \o Slash \o join(Tail(parts))

\* Router.combinePaths(...paths)
combinePaths(paths) ==
    LET stripped == [i \in 1..Len(filterBoolean(paths)) |->
                        stripTrailing(stripLeading(filterBoolean(paths)[i]))]
    IN  normalizePath(join(filterBoolean(stripped)))

(***************************************************************************)
(* The application: decorated controller classes (decorator metadata)      *)
(***************************************************************************)
Methods == {"GET", "POST", "PUT", "PATCH", "DELETE", "OPTIONS", "HEAD"}

users == <<"u","s","e","r","s">>
profile == <<"p","r","o","f","i","l","e">>
posts == <<"p","o","s","t","s">>
ping == <<"p","i","n","g">>
files == <<"f","i","l","e","s">>
colonId == <<":","i","d">>
colonUid == <<":","u","i","d">>
colonName == <<":","n","a","m","e">>
star == <<"*">>
meta == <<"m","e","t","a">>
raw == <<"r","a","w">>

\* A RouteDefinition as createRouteDecorator stores it
RouteDefinition(method, path, handler, middlewares) ==
    [method |-> method, path |-> path, handler |-> handler, middlewares |-> middlewares]

ControllerClasses ==
    {"UserController", "AccountController", "PingController", "StatusController",
     "FileController", "ArchiveController"}

\* Reflect.getMetadata(METADATA_KEYS.CONTROLLER, target): what @Controller stored
ControllerMetadata(target) ==
    CASE target = "UserController" -> [prefix |-> Slash \o users]
      [] target = "AccountController" -> [prefix |-> Slash \o users \o Slash]
      [] target = "PingController" -> [prefix |-> EmptyString]
      [] target = "StatusController" -> [prefix |-> Slash]
      [] target = "FileController" -> [prefix |-> Slash \o files]
      [] target = "ArchiveController" -> [prefix |-> Slash \o files]

\* Reflect.getMetadata(METADATA_KEYS.MIDDLEWARES, target): controller-level middleware
ControllerMiddlewares(target) ==
    CASE target = "UserController" -> <<"tenant", "throttle">>
      [] target = "FileController" -> <<"tenant">>
      [] OTHER -> <<>>

\* Reflect.getMetadata(METADATA_KEYS.ROUTES, target.prototype): the declared routes
ControllerRoutes(target) ==
    CASE target = "UserController" ->
            << RouteDefinition("GET", Slash \o colonId, "getUser", <<"audit", "etag">>),
               RouteDefinition("GET", Slash \o profile, "profile", <<>>),
               RouteDefinition("POST", Slash, "create", <<"audit">>) >>
      [] target = "AccountController" ->
            << RouteDefinition("GET", colonUid \o Slash \o posts, "posts", <<>>),
               RouteDefinition("HEAD", Slash \o posts, "probe", <<>>) >>
      [] target = "PingController" ->
            << RouteDefinition("GET", Slash \o ping, "ping", <<>>) >>
      [] target = "StatusController" ->
            << RouteDefinition("GET", ping \o Slash, "pong", <<"etag">>) >>
      [] target = "FileController" ->
            << RouteDefinition("GET", Slash \o star, "download", <<>>),
               RouteDefinition("GET", Slash \o colonName, "meta", <<>>),
               RouteDefinition("GET", star, "mirror", <<>>) >>
      [] target = "ArchiveController" ->
            << RouteDefinition("GET", Slash \o star \o Slash \o meta, "entry", <<>>),
               RouteDefinition("GET", Slash \o colonName \o Slash \o colonName
                                      \o Slash \o raw, "raw", <<>>),
               RouteDefinition("GET", Slash \o colonName \o Slash \o star, "list", <<>>) >>

GlobalMiddlewareChoices == {"cors", "logging"}
PrefixChoices == {<<"a","p","i","/">>}

(***************************************************************************)
(* The application: injectable classes and the global container            *)
(* (src/unnamed/part_002)                                                  *)
(***************************************************************************)
\* the injectable classes of the application and the tokens it injects by name
ServiceClasses ==
    {"UserService", "Database", "MailService", "AuditService", "ReportService",
     "OrderService", "PaymentService", "CheckoutService", "TreeNode"}
Tokens == {"STORAGE", "CLOCK", "CONFIG"}

\* typeof identifier === "function"
IsClass(identifier) == identifier \in ControllerClasses \cup ServiceClasses

\* Reflect.getMetadata("design:paramtypes", target): the constructor parameters
paramTypes(target) ==
    CASE target = "AccountController" -> <<"UserService">>
      [] target = "FileController" -> <<"Object">>
      [] target = "MailService" -> <<"Database">>
      [] target = "AuditService" -> <<"Database">>
      [] target = "ReportService" -> <<"MailService", "AuditService">>
      [] target = "OrderService" -> <<"PaymentService">>
      [] target = "PaymentService" -> <<"OrderService">>
      [] target = "CheckoutService" -> <<"OrderService">>
      [] target = "TreeNode" -> <<"TreeNode">>
      [] OTHER -> <<>>

\* Reflect.getMetadata(METADATA_KEYS.INJECT, target): what @Inject stored
injections(target) ==
    CASE target = "FileController" -> (1 :> "STORAGE")
      [] OTHER -> <<>>

\* new Container()
NewContainer ==
    [providers |-> <<>>, singletons |-> <<>>, resolving |-> {}, constructed |-> <<>>]

\* Container.registerClass
registerClass(c, target, singleton) ==
    [c EXCEPT !.providers =
        (target :> [provide |-> target, kind |-> "useClass", singleton |-> singleton,
                    useValue |-> [t |-> "undefined", v |-> <<>>]]) @@ @]

\* Container.registerValue
registerValue(c, identifier, value) ==
    [c EXCEPT !.providers =
                (identifier :> [provide |-> identifier, kind |-> "useValue",
                                singleton |-> TRUE, useValue |-> value]) @@ @,
              !.singletons = (identifier :> value) @@ @]

\* Container.registerFactory
registerFactory(c, identifier, singleton) ==
    [c EXCEPT !.providers =
        (identifier :> [provide |-> identifier, kind |-> "useFactory",
                        singleton |-> singleton, useValue |-> [t |-> "undefined", v |-> <<>>]]) @@ @]

RECURSIVE registerClasses(_, _)
\* the @Controller and @Injectable decorators of the classes, run while the
\* modules load: each registers its class as a singleton provider
registerClasses(c, targets) ==
    IF targets = {} THEN c
    ELSE LET target == CHOOSE t \in targets : TRUE
         IN  registerClasses(registerClass(c, target, TRUE), targets \ {target})

\* the global container once the application's modules are loaded
LoadedContainer ==
    registerFactory(
        registerValue(registerClasses(NewContainer, ControllerClasses \cup ServiceClasses),
                      "CONFIG", [t |-> "object", v |-> [port |-> 3000]]),
        "CLOCK", TRUE)

(***************************************************************************)
(* Router: the trie                                                        *)
(***************************************************************************)
\* A trie node is named by the edges from the root to it.
StaticEdge(segment) == [kind |-> "static", segment |-> segment]
ParamEdge == [kind |-> "param", segment |-> <<>>]
WildcardEdge == [kind |-> "wildcard", segment |-> <<>>]
RootNode == <<>>

\* Router.createNode. paramChild is <<>> (unset) or <<name>>; the child nodes
\* themselves are the entries of the trie under the node's name plus one edge.
createNode == [children |-> {}, paramChild |-> <<>>, wildcardChild |-> FALSE, handlers |-> <<>>]

\* new Router()
NewRouter ==
    [root |-> (RootNode :> createNode), controllers |-> <<>>,
     globalMiddlewares |-> <<>>, prefix |-> EmptyString]

\* normalizedPath.split("/").filter(Boolean) in addRoute
addRouteSegments(path) == filterBoolean(split(normalizePath(path), <<>>))

\* the edge addRoute follows (or creates) for a segment
edgeOf(segment) ==
    IF startsWith(segment, ":") THEN ParamEdge
    ELSE IF segment = star THEN WildcardEdge
    ELSE StaticEdge(segment)

\* the node addRoute ends at
terminalNode(segments) == [i \in 1..Len(segments) |-> edgeOf(segments[i])]

RECURSIVE addRouteWalkParamHides(_, _, _)
\* a walk whose new parameter child takes the place of the static children
\* the node had
addRouteWalkParamHides(root, node, segments) ==
    IF segments = <<>> THEN root
    ELSE
      LET segment == Head(segments)
          child == Append(node, edgeOf(segment))
          grown ==
            IF startsWith(segment, ":") THEN
                IF root[node].paramChild = <<>>
                THEN (child :> createNode) @@
                     [root EXCEPT ![node].paramChild = <<Tail(segment)>>,
                                  ![node].children = {}]
                ELSE root
            ELSE IF segment = star THEN
                IF ~root[node].wildcardChild
                THEN (child :> createNode) @@ [root EXCEPT ![node].wildcardChild = TRUE]
                ELSE root
            ELSE
                IF segment \notin root[node].children
                THEN (child :> createNode) @@
                     [root EXCEPT ![node].children = @ \cup {segment}]
                ELSE root
      IN  addRouteWalkParamHides(grown, child, Tail(segments))

RECURSIVE addRouteWalkSecondParam(_, _, _)
\* a walk that gives a node a further parameter child when the name differs
addRouteWalkSecondParam(root, node, segments) ==
    IF segments = <<>> THEN root
    ELSE
      LET segment == Head(segments)
          child == Append(node, edgeOf(segment))
          grown ==
            IF startsWith(segment, ":") THEN
                IF root[node].paramChild = <<>>
                THEN (child :> createNode) @@
                     [root EXCEPT ![node].paramChild = <<Tail(segment)>>]
                ELSE IF \A k \in DOMAIN root[node].paramChild :
                            root[node].paramChild[k] # Tail(segment)
                THEN [root EXCEPT ![node].paramChild = Append(@, Tail(segment))]
                ELSE root
            ELSE IF segment = star THEN
                IF ~root[node].wildcardChild
                THEN (child :> createNode) @@ [root EXCEPT ![node].wildcardChild = TRUE]
                ELSE root
            ELSE
                IF segment \notin root[node].children
                THEN (child :> createNode) @@
                     [root EXCEPT ![node].children = @ \cup {segment}]
                ELSE root
      IN  addRouteWalkSecondParam(grown, child, Tail(segments))

RECURSIVE addRouteWalk(_, _, _)
\* the loop of addRoute: the trie after walking (and creating) from node
addRouteWalk(root, node, segments) ==
    IF segments = <<>> THEN root
    ELSE
      LET segment == Head(segments)
          child == Append(node, edgeOf(segment))
          grown ==
            IF startsWith(segment, ":") THEN
                IF root[node].paramChild = <<>>
                THEN (child :> createNode) @@
                     [root EXCEPT ![node].paramChild = <<Tail(segment)>>]
                ELSE root
            ELSE IF segment = star THEN
                IF ~root[node].wildcardChild
                THEN (child :> createNode) @@ [root EXCEPT ![node].wildcardChild = TRUE]
                ELSE root
            ELSE
                IF segment \notin root[node].children
                THEN (child :> createNode) @@
                     [root EXCEPT ![node].children = @ \cup {segment}]
                ELSE root
      IN  addRouteWalk(grown, child, Tail(segments))

\* a CompiledRoute with the global middleware after the route's own
compiledRouteGlobalLast(rt, controller, handler, middlewares, definition) ==
    [controller |-> controller, handler |-> handler,
     middlewares |-> middlewares \o rt.globalMiddlewares, definition |-> definition]

\* the CompiledRoute addRoute stores
compiledRoute(rt, controller, handler, middlewares, definition) ==
    [controller |-> controller, handler |-> handler,
     middlewares |-> rt.globalMiddlewares \o middlewares, definition |-> definition]

\* node.handlers.has(method) at the end of addRoute: the overwrite warning is due
addRouteWarns(rt, method, path) ==
    LET node == terminalNode(addRouteSegments(path))
    IN  node \in DOMAIN rt.root /\ method \in DOMAIN rt.root[node].handlers

\* addRoute keeping a route that is already registered (first registration wins)
addRouteKeepFirst(rt, method, path, controller, handler, middlewares, definition) ==
    LET segments == addRouteSegments(path)
        walked == addRouteWalk(rt.root, RootNode, segments)
        node == terminalNode(segments)
        route == compiledRoute(rt, controller, handler, middlewares, definition)
    IN  [rt EXCEPT !.root =
            [walked EXCEPT ![node].handlers = @ @@ (method :> route)]]

\* Router.addRoute: the router afterwards
addRoute(rt, method, path, controller, handler, middlewares, definition) ==
    LET segments == addRouteSegments(path)
        walked == addRouteWalk(rt.root, RootNode, segments)
        node == terminalNode(segments)
        route == compiledRoute(rt, controller, handler, middlewares, definition)
    IN  [rt EXCEPT !.root =
            [walked EXCEPT ![node].handlers = (method :> route) @@ @]]

\* the arguments registerController passes to addRoute for one declared route
addRouteArgs(rt, target, route) ==
    [method |-> route.method,
     path |-> combinePaths(<<rt.prefix, ControllerMetadata(target).prefix, route.path>>),
     controller |-> target, handler |-> route.handler,
     middlewares |-> ControllerMiddlewares(target) \o route.middlewares,
     definition |-> route]

RECURSIVE registerRoutes(_, _, _)
\* the for loop of registerController over the routes not yet added:
\* st = [router, console, addRouteLog]
registerRoutes(st, target, routes) ==
    IF routes = <<>> THEN st
    ELSE
      LET a == addRouteArgs(st.router, target, Head(routes))
          next ==
            [router |-> addRoute(st.router, a.method, a.path, a.controller, a.handler,
                                 a.middlewares, a.definition),
             console |-> IF addRouteWarns(st.router, a.method, a.path)
                         THEN Append(st.console, [warn |-> "overwriting", method |-> a.method,
                                                  path |-> a.path])
                         ELSE st.console,
             addRouteLog |-> Append(st.addRouteLog, a)]
      IN  registerRoutes(next, target, Tail(routes))

\* this.controllers.set(target, controllerDef): a Map keeps first-insertion order
controllersSet(controllers, target, def) ==
    IF \E i \in 1..Len(controllers) : controllers[i].target = target
    THEN [i \in 1..Len(controllers) |->
            IF controllers[i].target = target THEN def ELSE controllers[i]]
    ELSE Append(controllers, def)

\* Router.registerController for a decorated class
registerController(st, target) ==
    LET def == [prefix |-> ControllerMetadata(target).prefix, target |-> target,
                routes |-> ControllerRoutes(target),
                middlewares |-> ControllerMiddlewares(target)]
        st1 == [st EXCEPT !.router.controllers = controllersSet(@, target, def)]
    IN  registerRoutes(st1, target, ControllerRoutes(target))

(***************************************************************************)
(* Router: matching                                                        *)
(***************************************************************************)
null == [isNull |-> TRUE]

\* match splitting the raw path: no normalisation, empty pieces kept
matchSegmentsRaw(path) == split(path, <<>>)

\* normalizedPath.split("/").filter(Boolean) in match
matchSegments(path) == filterBoolean(split(normalizePath(path), <<>>))

\* params[name] = value
bind(params, name, value) == (name :> value) @@ params
\* delete params[name]
unbind(params, name) == [k \in DOMAIN params \ {name} |-> params[k]]

RECURSIVE matchNode(_, _, _, _, _)

\* matchNode trying the parameter child before the static child
matchNodeParamFirst(root, node, segments, index, params) ==
    IF index = Len(segments) + 1 THEN [node |-> <<node>>, params |-> params]
    ELSE
      LET segment == segments[index]
          hasParam == root[node].paramChild # <<>>
          name == root[node].paramChild[1]
          param == matchNode(root, Append(node, ParamEdge), segments, index + 1,
                             bind(params, name, segment))
          paramHit == hasParam /\ param.node # <<>>
                      /\ DOMAIN root[param.node[1]].handlers # {}
          p1 == IF ~hasParam THEN params
                ELSE IF name \in DOMAIN params THEN bind(param.params, name, params[name])
                ELSE unbind(param.params, name)
          hasStatic == segment \in root[node].children
          static == matchNode(root, Append(node, StaticEdge(segment)), segments,
                              index + 1, p1)
          staticHit == hasStatic /\ static.node # <<>>
                       /\ DOMAIN root[static.node[1]].handlers # {}
          p2 == IF hasStatic THEN static.params ELSE p1
      IN  IF paramHit THEN param
          ELSE IF staticHit THEN static
          ELSE IF root[node].wildcardChild
               THEN [node |-> <<Append(node, WildcardEdge)>>, params |-> p2]
          ELSE [node |-> <<>>, params |-> p2]

\* matchNode whose wildcard child matches one segment only: it is taken only
\* when the current segment is the last one
matchNodeWildcardLastOnly(root, node, segments, index, params) ==
    IF index = Len(segments) + 1 THEN [node |-> <<node>>, params |-> params]
    ELSE
      LET segment == segments[index]
          hasStatic == segment \in root[node].children
          static == matchNode(root, Append(node, StaticEdge(segment)), segments,
                              index + 1, params)
          staticHit == hasStatic /\ static.node # <<>>
                       /\ DOMAIN root[static.node[1]].handlers # {}
          p1 == IF hasStatic THEN static.params ELSE params
          hasParam == root[node].paramChild # <<>>
          name == root[node].paramChild[1]
          param == matchNode(root, Append(node, ParamEdge), segments, index + 1,
                             bind(p1, name, segment))
          paramHit == hasParam /\ param.node # <<>>
                      /\ DOMAIN root[param.node[1]].handlers # {}
          p2 == IF ~hasParam THEN p1
                ELSE IF name \in DOMAIN p1 THEN bind(param.params, name, p1[name])
                ELSE unbind(param.params, name)
      IN  IF staticHit THEN static
          ELSE IF paramHit THEN param
          ELSE IF root[node].wildcardChild /\ index = Len(segments)
               THEN [node |-> <<Append(node, WildcardEdge)>>, params |-> p2]
          ELSE [node |-> <<>>, params |-> p2]

\* matchNode whose backtracking always deletes the key, whether or not a value
\* was bound under that name before
matchNodeNoRestore(root, node, segments, index, params) ==
    IF index = Len(segments) + 1 THEN [node |-> <<node>>, params |-> params]
    ELSE
      LET segment == segments[index]
          hasStatic == segment \in root[node].children
          static == matchNode(root, Append(node, StaticEdge(segment)), segments,
                              index + 1, params)
          staticHit == hasStatic /\ static.node # <<>>
                       /\ DOMAIN root[static.node[1]].handlers # {}
          p1 == IF hasStatic THEN static.params ELSE params
          hasParam == root[node].paramChild # <<>>
          name == root[node].paramChild[1]
          param == matchNode(root, Append(node, ParamEdge), segments, index + 1,
                             bind(p1, name, segment))
          paramHit == hasParam /\ param.node # <<>>
                      /\ DOMAIN root[param.node[1]].handlers # {}
          p2 == IF ~hasParam THEN p1 ELSE unbind(param.params, name)
      IN  IF staticHit THEN static
          ELSE IF paramHit THEN param
          ELSE IF root[node].wildcardChild
               THEN [node |-> <<Append(node, WildcardEdge)>>, params |-> p2]
          ELSE [node |-> <<>>, params |-> p2]

\* a matchNode whose wildcard child also stands for no remaining segment
matchNodeWildcardEmpty(root, node, segments, index, params) ==
    IF index = Len(segments) + 1
    THEN IF DOMAIN root[node].handlers = {} /\ root[node].wildcardChild
         THEN [node |-> <<Append(node, WildcardEdge)>>, params |-> params]
         ELSE [node |-> <<node>>, params |-> params]
    ELSE
      LET segment == segments[index]
          hasStatic == segment \in root[node].children
          static == matchNode(root, Append(node, StaticEdge(segment)), segments,
                              index + 1, params)
          staticHit == hasStatic /\ static.node # <<>>
                       /\ DOMAIN root[static.node[1]].handlers # {}
          p1 == IF hasStatic THEN static.params ELSE params
          hasParam == root[node].paramChild # <<>>
          name == root[node].paramChild[1]
          param == matchNode(root, Append(node, ParamEdge), segments, index + 1,
                             bind(p1, name, segment))
          paramHit == hasParam /\ param.node # <<>>
                      /\ DOMAIN root[param.node[1]].handlers # {}
          p2 == IF ~hasParam THEN p1
                ELSE IF name \in DOMAIN p1 THEN bind(param.params, name, p1[name])
                ELSE unbind(param.params, name)
      IN  IF staticHit THEN static
          ELSE IF paramHit THEN param
          ELSE IF root[node].wildcardChild
               THEN [node |-> <<Append(node, WildcardEdge)>>, params |-> p2]
          ELSE [node |-> <<>>, params |-> p2]

\* Router.matchNode. params is one mutable object in the source; here every
\* result carries the params as the call leaves them: [node, params], with
\* node = null for a null return. index counts from 1.
matchNode(root, node, segments, index, params) ==
    IF index = Len(segments) + 1 THEN [node |-> <<node>>, params |-> params]
    ELSE
      LET segment == segments[index]
          hasStatic == segment \in root[node].children
          static == matchNode(root, Append(node, StaticEdge(segment)), segments,
                              index + 1, params)
          staticHit == hasStatic /\ static.node # <<>>
                       /\ DOMAIN root[static.node[1]].handlers # {}
          p1 == IF hasStatic THEN static.params ELSE params
          hasParam == root[node].paramChild # <<>>
          name == root[node].paramChild[1]
          param == matchNode(root, Append(node, ParamEdge), segments, index + 1,
                             bind(p1, name, segment))
          paramHit == hasParam /\ param.node # <<>>
                      /\ DOMAIN root[param.node[1]].handlers # {}
          p2 == IF ~hasParam THEN p1
                ELSE IF name \in DOMAIN p1 THEN bind(param.params, name, p1[name])
                ELSE unbind(param.params, name)
      IN  IF staticHit THEN static
          ELSE IF paramHit THEN param
          ELSE IF root[node].wildcardChild
               THEN [node |-> <<Append(node, WildcardEdge)>>, params |-> p2]
          ELSE [node |-> <<>>, params |-> p2]

\* Router.match
match(rt, method, path) ==
    LET result == matchNode(rt.root, RootNode, matchSegments(path), 1, <<>>)
    IN  IF result.node = <<>> THEN null
        ELSE IF method \notin DOMAIN rt.root[result.node[1]].handlers THEN null
        ELSE [route |-> rt.root[result.node[1]].handlers[method], params |-> result.params]

RECURSIVE getRoutesFrom(_, _)
\* the two for loops of getRoutes over the controllers not yet enumerated
getRoutesFrom(rt, controllers) ==
    IF controllers = <<>> THEN <<>>
    ELSE LET def == Head(controllers)
         IN  [i \in 1..Len(def.routes) |->
                [method |-> def.routes[i].method,
                 path |-> combinePaths(<<rt.prefix, def.prefix, def.routes[i].path>>),
                 definition |-> def.routes[i],
                 controller |-> def.target]]
             \o getRoutesFrom(rt, Tail(controllers))

\* Router.getRoutes
getRoutes(rt) == getRoutesFrom(rt, rt.controllers)

(***************************************************************************)
(* Requests tried against the router                                       *)
(***************************************************************************)
\* the three ways the specification varies a path without changing its meaning
addTrailingSlash(path) == path \o Slash
omitLeadingSeparator(path) == IF startsWith(path, "/") THEN Tail(path) ELSE path
RECURSIVE duplicateSeparators(_)
duplicateSeparators(path) ==
    IF path = <<>> THEN <<>>
    ELSE IF path[1] = "/" THEN <<"/", "/">> \o duplicateSeparators(Tail(path))
    ELSE <<path[1]>> \o duplicateSeparators(Tail(path))

Variants(path) ==
    LET t(b, q) == IF b THEN addTrailingSlash(q) ELSE q
        d(b, q) == IF b THEN duplicateSeparators(q) ELSE q
        o(b, q) == IF b THEN omitLeadingSeparator(q) ELSE q
    IN  { o(b3, d(b2, t(b1, path))) : b1 \in BOOLEAN, b2 \in BOOLEAN, b3 \in BOOLEAN }

RequestPaths ==
    { Slash \o users \o Slash \o <<"4","2">>,
      Slash \o users \o Slash \o profile,
      Slash \o Slash \o users \o Slash \o Slash \o profile \o Slash,
      Slash \o users \o Slash \o <<"4","2">> \o Slash \o posts,
      Slash \o users \o Slash \o posts,
      Slash \o users,
      Slash \o ping,
      ping,
      Slash \o files \o Slash \o <<"a">> \o Slash \o <<"b">> \o Slash \o <<"c">>,
      Slash \o files \o Slash \o <<"a">>,
      Slash \o files \o Slash \o star,
      Slash \o files,
      Slash \o <<"a","p","i">> \o Slash \o Slash \o ping,
      Slash \o <<"n","o","n","e">> }

(***************************************************************************)
(* Router: the calls as actions                                            *)
(***************************************************************************)
Init ==
    /\ router = NewRouter
    /\ console = <<>>
    /\ addRouteLog = <<>>
    /\ registrations = 0
    /\ lastOp = [op |-> "new"]
    /\ options = <<>>
    /\ requests = <<>>
    /\ container = LoadedContainer
    /\ resolutions = <<>>

\* Router.setPrefix(prefix)
SetPrefix(prefix) ==
    /\ router.prefix # normalizePath(prefix)
    /\ router' = [router EXCEPT !.prefix = normalizePath(prefix)]
    /\ lastOp' = [op |-> "setPrefix", prefix |-> prefix]
    /\ UNCHANGED <<console, addRouteLog, registrations, options, requests, container, resolutions>>

\* a use that reaches the routes already compiled, as if they shared the list
useReachesCompiled(rt, middleware) ==
    [rt EXCEPT !.globalMiddlewares = Append(@, middleware),
               !.root = [node \in DOMAIN rt.root |->
                            [rt.root[node] EXCEPT !.handlers =
                                [m \in DOMAIN @ |->
                                    [@[m] EXCEPT !.middlewares = <<middleware>> \o @]]]]]

\* Router.use: this.globalMiddlewares.push(middleware)
use(rt, middleware) == [rt EXCEPT !.globalMiddlewares = Append(@, middleware)]

\* Router.use(middleware)
Use(middleware) ==
    /\ Len(router.globalMiddlewares) < MaxGlobal
    /\ router' = use(router, middleware)
    /\ lastOp' = [op |-> "use", middleware |-> middleware]
    /\ UNCHANGED <<console, addRouteLog, registrations, options, requests, container, resolutions>>

\* Router.registerController(target)
RegisterController(target) ==
    /\ registrations < MaxRegistrations
    /\ LET st == registerController(
                    [router |-> router, console |-> console, addRouteLog |-> addRouteLog],
                    target)
       IN  /\ router' = st.router
           /\ console' = st.console
           /\ addRouteLog' = st.addRouteLog
    /\ registrations' = registrations + 1
    /\ lastOp' = [op |-> "registerController", target |-> target]
    /\ UNCHANGED <<options, requests, container, resolutions>>

\* Router.match(method, path)
Match(method, path) ==
    /\ lastOp' = [op |-> "match", method |-> method, path |-> path,
                  result |-> match(router, method, path)]
    /\ UNCHANGED <<router, console, addRouteLog, registrations, options, requests, container, resolutions>>

\* Router.getRoutes()
GetRoutes ==
    /\ router.controllers # <<>>
    /\ lastOp' = [op |-> "getRoutes", result |-> getRoutes(router)]
    /\ UNCHANGED <<router, console, addRouteLog, registrations, options, requests, container, resolutions>>

\* the methods tried against the router: the registered ones and one that is not
ProbeMethods == {"GET", "POST", "HEAD", "DELETE"}

\* Routes are registered and requests are matched
NextRouter ==
    \/ \E target \in ControllerClasses : RegisterController(target)
    \/ \E method \in ProbeMethods, path \in RequestPaths : Match(method, path)

SpecRouter == Init /\ [][NextRouter]_vars

\* The start-up calls in any order: prefix, global middleware, controllers
NextRegistration ==
    \/ \E prefix \in PrefixChoices : SetPrefix(prefix)
    \/ \E middleware \in GlobalMiddlewareChoices : Use(middleware)
    \/ \E target \in ControllerClasses : RegisterController(target)
    \/ GetRoutes

SpecRegistration == Init /\ [][NextRegistration]_vars

(***************************************************************************)
(* Properties of the router                                                *)
(***************************************************************************)
\* the walk of the last match call
lastSegments == matchSegments(lastOp.path)
lastWalk == matchNode(router.root, RootNode, lastSegments, 1, <<>>)
HasHandlers(node) == DOMAIN router.root[node].handlers # {}
\* addRoute call i and call j store into the same handler slot
SameSlot(i, j) ==
    /\ addRouteLog[i].method = addRouteLog[j].method
    /\ terminalNode(addRouteSegments(addRouteLog[i].path))
         = terminalNode(addRouteSegments(addRouteLog[j].path))
\* addRoute call i registers a (method, effective path) registered before
Duplicate(i) ==
    \E j \in 1..(i - 1) :
        /\ addRouteLog[j].method = addRouteLog[i].method
        /\ normalizePath(addRouteLog[j].path) = normalizePath(addRouteLog[i].path)
\* no later addRoute call stores into the slot of call i
LastOfSlot(i) == \A j \in (i + 1)..Len(addRouteLog) : ~SameSlot(i, j)

StaticResolves(node, index) ==
    /\ index <= Len(lastSegments)
    /\ lastSegments[index] \in router.root[node].children
    /\ LET r == matchNode(router.root, Append(node, StaticEdge(lastSegments[index])),
                          lastSegments, index + 1, <<>>)
       IN  r.node # <<>> /\ HasHandlers(r.node[1])

RECURSIVE Visited(_)
\* matchNode is called on node (with index Len(node) + 1) during the last match
Visited(node) ==
    IF node = RootNode THEN TRUE
    ELSE LET parent == SubSeq(node, 1, Len(node) - 1)
             edge == node[Len(node)]
         IN  /\ Len(node) <= Len(lastSegments)
             /\ Visited(parent)
             /\ CASE edge.kind = "static" -> edge.segment = lastSegments[Len(node)]
                  [] edge.kind = "param" -> ~StaticResolves(parent, Len(node))
                  [] OTHER -> FALSE

\* the parameters bound on the way from the root to node
ParamsOnTheWay(node) ==
    LET at == { k \in 1..Len(node) : node[k].kind = "param" }
        nameAt(k) == router.root[SubSeq(node, 1, k - 1)].paramChild[1]
    IN  [n \in { nameAt(k) : k \in at } |->
            lastSegments[CHOOSE k \in at : nameAt(k) = n
                            /\ \A k2 \in at : nameAt(k2) = n => k2 <= k]]

\* C2: static precedence. At every node the walk visits that has a static child
\* for the current segment and a parameter child, if the static subtree resolves
\* the rest to a node with a handler, match ends at that node, returns its route
\* for the request method (none if it has none for that method) and binds
\* nothing for that segment.
C2_StaticPrecedence ==
    lastOp.op = "match" =>
        \A node \in DOMAIN router.root :
            (/\ Visited(node)
             /\ router.root[node].paramChild # <<>>
             /\ StaticResolves(node, Len(node) + 1))
            => LET static == matchNode(router.root,
                                 Append(node, StaticEdge(lastSegments[Len(node) + 1])),
                                 lastSegments, Len(node) + 2, ParamsOnTheWay(node))
               IN  /\ lastWalk = static
                   /\ Len(static.node[1]) > Len(node)
                   /\ static.node[1][Len(node) + 1] = StaticEdge(lastSegments[Len(node) + 1])
                   /\ lastOp.result =
                        IF lastOp.method \in DOMAIN router.root[static.node[1]].handlers
                        THEN [route |-> router.root[static.node[1]].handlers[lastOp.method],
                              params |-> static.params]
                        ELSE null

C2_Witness ==
    /\ lastOp.op = "match"
    /\ lastOp.method = "GET"
    /\ lastOp.path = Slash \o users \o Slash \o profile
    /\ <<StaticEdge(users)>> \in DOMAIN router.root
    /\ router.root[<<StaticEdge(users)>>].paramChild # <<>>
    /\ lastOp.result # null
    /\ lastOp.result.route.handler = "profile"
    /\ lastOp.result.params = <<>>

\* the addRoute calls that registered the route a match returned
CallsOf(route) ==
    { i \in 1..Len(addRouteLog) :
        /\ addRouteLog[i].controller = route.controller
        /\ addRouteLog[i].handler = route.handler
        /\ addRouteLog[i].definition = route.definition }
\* the parameters a registered path declares, bound to the request segments at
\* the same positions
DeclaredParams(path, segments) ==
    LET declared == addRouteSegments(path)
        at == { k \in 1..Len(declared) : startsWith(declared[k], ":") }
    IN  [n \in { Tail(declared[k]) : k \in at } |->
            segments[CHOOSE k \in at : Tail(declared[k]) = n]]

\* C3 (as claimed): a successful match returns exactly the parameters the matched
\* route declares, each bound to the request segment at its position, whatever
\* else was registered.
C3_ParamsAreTheDeclaredOnes ==
    (lastOp.op = "match" /\ lastOp.result # null) =>
        \A i \in CallsOf(lastOp.result.route) :
            lastOp.result.params = DeclaredParams(addRouteLog[i].path, lastSegments)

IsPrefix(s, t) == Len(s) <= Len(t) /\ SubSeq(t, 1, Len(s)) = s

\* C10: every compiled route's middleware list is global ++ controller-level ++
\* route-level middleware, each in its own order: the global list as it stood
\* when the controller was registered.
C10_MiddlewareOrder ==
    /\ \A node \in DOMAIN router.root :
        \A method \in DOMAIN router.root[node].handlers :
            LET route == router.root[node].handlers[method]
            IN  \E k \in 0..Len(router.globalMiddlewares) :
                    route.middlewares =
                        SubSeq(router.globalMiddlewares, 1, k)
                        \o ControllerMiddlewares(route.controller)
                        \o route.definition.middlewares
    /\ lastOp.op = "registerController" =>
        \A i \in (Len(addRouteLog) - Len(ControllerRoutes(lastOp.target)) + 1)
                    ..Len(addRouteLog) :
            LastOfSlot(i) =>
                LET a == addRouteLog[i]
                    node == terminalNode(addRouteSegments(a.path))
                IN  router.root[node].handlers[a.method].middlewares =
                        router.globalMiddlewares
                        \o ControllerMiddlewares(lastOp.target)
                        \o a.definition.middlewares

C10_Witness ==
    /\ lastOp.op = "registerController"
    /\ lastOp.target = "UserController"
    /\ router.globalMiddlewares = <<"logging", "cors">>
    /\ LET node == <<StaticEdge(users), ParamEdge>>
       IN  /\ node \in DOMAIN router.root
           /\ "GET" \in DOMAIN router.root[node].handlers
           /\ router.root[node].handlers["GET"].middlewares =
                <<"logging", "cors", "tenant", "throttle", "audit", "etag">>

\* the parameter child of node for request segment index resolves the remaining
\* segments to a node with at least one handler
ParamResolves(node, index) ==
    /\ index <= Len(lastSegments)
    /\ router.root[node].paramChild # <<>>
    /\ LET r == matchNode(router.root, Append(node, ParamEdge), lastSegments,
                          index + 1, <<>>)
       IN  r.node # <<>> /\ HasHandlers(r.node[1])

\* the nodes the last match calls matchNode on with segments left, a wildcard
\* child, and neither the static nor the parameter alternative resolving
WildcardPoints ==
    { node \in DOMAIN router.root :
        /\ Visited(node)
        /\ Len(node) < Len(lastSegments)
        /\ router.root[node].wildcardChild
        /\ ~StaticResolves(node, Len(node) + 1)
        /\ ~ParamResolves(node, Len(node) + 1) }

\* the route match returns for a walk ending at node
RouteAt(node) ==
    IF lastOp.method \in DOMAIN router.root[node].handlers
    THEN <<router.root[node].handlers[lastOp.method]>>
    ELSE <<>>
ReturnedRoute == IF lastOp.result = null THEN <<>> ELSE <<lastOp.result.route>>

\* C15 (as claimed): wherever neither the static nor the parameter alternative
\* resolves and a wildcard child exists, the walk ends at the wildcard child
\* and match resolves to its route.
C15_WalkEndsAtWildcard ==
    lastOp.op = "match" =>
        \A node \in WildcardPoints :
            /\ lastWalk.node = <<Append(node, WildcardEdge)>>
            /\ ReturnedRoute = RouteAt(Append(node, WildcardEdge))

\* C15 (amended): at such a node matchNode returns the wildcard child for all
\* the remaining segments (one or more) in one step, without descending; when
\* the wildcard child holds a handler the whole walk ends there and match
\* returns its route for the request method (none if it has none for that
\* method), as with /files/* registered and /files/a/b/c requested.
C15_WildcardTakesTheRest ==
    lastOp.op = "match" =>
        \A node \in WildcardPoints :
            LET wildcard == Append(node, WildcardEdge)
                call == matchNode(router.root, node, lastSegments, Len(node) + 1,
                                  ParamsOnTheWay(node))
            IN  /\ call.node = <<wildcard>>
                /\ Len(wildcard) <= Len(lastSegments)
                /\ HasHandlers(wildcard) =>
                    /\ lastWalk.node = <<wildcard>>
                    /\ ReturnedRoute = RouteAt(wildcard)

C15_Witness ==
    /\ lastOp.op = "match"
    /\ lastOp.method = "GET"
    /\ lastOp.path = Slash \o files \o Slash \o <<"a">> \o Slash \o <<"b">> \o Slash \o <<"c">>
    /\ <<StaticEdge(files)>> \in WildcardPoints
    /\ lastWalk.node = << <<StaticEdge(files), WildcardEdge>> >>
    /\ lastOp.result # null
    /\ lastOp.result.route.controller = "FileController"
    /\ lastOp.result.route.handler = "mirror"

\* the request segments a walk ending at a wildcard node left to the wildcard
Remainder(node) == SubSeq(lastSegments, Len(node), Len(lastSegments))

\* C16 (as claimed): a match through a wildcard carries the remainder of the
\* path, joined by "/", bound to the wildcard in its params.
C16_WildcardCapturesRemainder ==
    (/\ lastOp.op = "match" /\ lastOp.result # null
     /\ lastWalk.node[1] # RootNode
     /\ lastWalk.node[1][Len(lastWalk.node[1])] = WildcardEdge)
    => \E key \in DOMAIN lastOp.result.params :
            lastOp.result.params[key] = join(Remainder(lastWalk.node[1]))

\* C20: backtracking restores bindings. Every call of matchNode that does not
\* resolve to a node with a handler leaves params as it found them, so a walk
\* ends with exactly the bindings made at the parameter nodes on the way from
\* the root to the node it returns (the deepest one for a name bound twice),
\* and these are the params of the RouteMatch.
C20_BacktrackingRestoresBindings ==
    lastOp.op = "match" =>
        /\ \A node \in DOMAIN router.root :
            (Visited(node) /\ Len(node) <= Len(lastSegments)) =>
                LET call == matchNode(router.root, node, lastSegments, Len(node) + 1,
                                      ParamsOnTheWay(node))
                IN  (call.node = <<>> \/ ~HasHandlers(call.node[1]))
                        => call.params = ParamsOnTheWay(node)
        /\ lastWalk.node # <<>> =>
                lastWalk.params = ParamsOnTheWay(lastWalk.node[1])
        /\ lastOp.result # null =>
                lastOp.result.params = ParamsOnTheWay(lastWalk.node[1])

C20_Witness ==
    /\ lastOp.op = "match"
    /\ lastOp.method = "GET"
    /\ lastOp.path = Slash \o files \o Slash \o <<"a">> \o Slash \o <<"b">> \o Slash \o <<"c">>
    /\ <<StaticEdge(files), ParamEdge, ParamEdge>> \in DOMAIN router.root
    /\ Visited(<<StaticEdge(files), ParamEdge, ParamEdge>>)
    /\ lastWalk.node = << <<StaticEdge(files), ParamEdge, WildcardEdge>> >>
    /\ lastOp.result # null
    /\ lastOp.result.route.handler = "list"
    /\ lastOp.result.params = (Tail(colonName) :> <<"a">>)

\* the controllers registered so far, each once, in the order of their first
\* registration
RECURSIVE firstRegistrations(_, _)
firstRegistrations(log, seen) ==
    IF log = <<>> THEN <<>>
    ELSE IF Head(log).controller \in seen THEN firstRegistrations(Tail(log), seen)
    ELSE <<Head(log).controller>>
         \o firstRegistrations(Tail(log), seen \cup {Head(log).controller})

RECURSIVE declaredRoutes(_)
\* one (controller, declared route) pair per declared route of the given controllers
declaredRoutes(targets) ==
    IF targets = <<>> THEN <<>>
    ELSE [i \in 1..Len(ControllerRoutes(Head(targets))) |->
            [controller |-> Head(targets),
             definition |-> ControllerRoutes(Head(targets))[i]]]
         \o declaredRoutes(Tail(targets))

\* C19 (as claimed): after any sequence of setPrefix, use and registerController
\* calls, getRoutes returns one tuple per declared route of every registered
\* controller, in registration order; each tuple's path is a path under which
\* that route was inserted into the trie, and match(tuple.method, tuple.path)
\* resolves to a route of tuple.controller.
C19_GetRoutesAgreesWithTrie ==
    lastOp.op = "getRoutes" =>
        LET routes == lastOp.result
            declared == declaredRoutes(firstRegistrations(addRouteLog, {}))
        IN  /\ Len(routes) = Len(declared)
            /\ \A i \in 1..Len(routes) :
                /\ routes[i].controller = declared[i].controller
                /\ routes[i].definition = declared[i].definition
                /\ routes[i].method = declared[i].definition.method
                /\ \E k \in 1..Len(addRouteLog) :
                    /\ addRouteLog[k].controller = routes[i].controller
                    /\ addRouteLog[k].definition = routes[i].definition
                    /\ addRouteLog[k].path = routes[i].path
                /\ LET m == match(router, routes[i].method, routes[i].path)
                   IN  m # null /\ m.route.controller = routes[i].controller

(***************************************************************************)
(* Values, errors and responses                                            *)
(***************************************************************************)
\* JavaScript values: a type tag and the value
JsUndefined == [t |-> "undefined", v |-> <<>>]
JsNull == [t |-> "null", v |-> <<>>]
JsString(s) == [t |-> "string", v |-> s]
JsNumber(n) == [t |-> "number", v |-> n]
JsBoolean(b) == [t |-> "boolean", v |-> b]
JsObject(o) == [t |-> "object", v |-> o]
JsArray(a) == [t |-> "array", v |-> a]
JsResponse(response) == [t |-> "Response", v |-> response]

\* JSON.stringify(data): a text that is the JSON of data
JSONstringify(data) == [text |-> "json", of |-> data]
\* a text that is the given string
PlainText(s) == [text |-> "plain", of |-> JsString(s)]
\* the null body of new Response(null, ...)
NoBody == [text |-> "none", of |-> JsNull]

\* new Response(body, {status, headers}); headers are (name, value) pairs
Response(body, status, headers) == [body |-> body, headers |-> headers, status |-> status]

\* HttpException.getDefaultCode
getDefaultCode(status) ==
    CASE status = 400 -> "BAD_REQUEST"
      [] status = 401 -> "UNAUTHORIZED"
      [] status = 403 -> "FORBIDDEN"
      [] status = 404 -> "NOT_FOUND"
      [] status = 405 -> "METHOD_NOT_ALLOWED"
      [] status = 409 -> "CONFLICT"
      [] status = 422 -> "UNPROCESSABLE_ENTITY"
      [] status = 429 -> "TOO_MANY_REQUESTS"
      [] status = 500 -> "INTERNAL_SERVER_ERROR"
      [] status = 502 -> "BAD_GATEWAY"
      [] status = 503 -> "SERVICE_UNAVAILABLE"
      [] OTHER -> "UNKNOWN_ERROR"

\* new HttpException({status, message, details}) as the subclass called name
HttpException(name, status, message, details) ==
    [t |-> "HttpException", name |-> name, status |-> status,
     code |-> getDefaultCode(status), message |-> message, details |-> details]

UnauthorizedException(message) == HttpException("UnauthorizedException", 401, message, <<>>)
ForbiddenException(message) == HttpException("ForbiddenException", 403, message, <<>>)
NotFoundException(message) == HttpException("NotFoundException", 404, message, <<>>)
MethodNotAllowedException ==
    HttpException("MethodNotAllowedException", 405, "Method Not Allowed", <<>>)
ValidationException(errors) ==
    HttpException("ValidationException", 422, "Validation Failed", errors)
InternalServerException(message) ==
    HttpException("InternalServerException", 500, message, <<>>)

\* new Error(message)
Error(message) == [t |-> "Error", message |-> message]
\* the ZodError a failed safeParse returns
ZodError(issues) == [t |-> "ZodError", issues |-> issues]

\* HttpException.toJSON and its override in ValidationException (the timestamp,
\* a clock reading, is left out)
toJSON(e) ==
    IF e.name = "ValidationException"
    THEN [success |-> FALSE,
          error |-> [status |-> e.status, code |-> "VALIDATION_ERROR",
                     message |-> e.message, errors |-> e.details]]
    ELSE [success |-> FALSE,
          error |-> [status |-> e.status, code |-> e.code,
                     message |-> e.message, details |-> e.details]]

\* HttpException.toResponse
toResponse(e) ==
    Response(JSONstringify(JsObject(toJSON(e))), e.status,
             {<<"Content-Type", "application/json">>})

RECURSIVE joinDot(_)
\* issue.path.join(".")
joinDot(path) ==
    IF path = <<>> THEN ""
    ELSE IF Len(path) = 1 THEN path[1]
    ELSE path[1] \o "." \o joinDot(Tail(path))

\* handleException with the Zod branch left out
handleExceptionNoIssues(error, production) ==
    IF error.t = "HttpException" THEN toResponse(error)
    ELSE IF error.t \in {"Error", "ZodError"}
    THEN toResponse(InternalServerException(
            IF production \/ error.t = "ZodError" THEN "Internal Server Error"
            ELSE error.message))
    ELSE toResponse(InternalServerException("An unexpected error occurred"))

\* handleException(error); production is NODE_ENV === "production"
handleException(error, production) ==
    IF error.t = "HttpException" THEN toResponse(error)
    ELSE IF "issues" \in DOMAIN error
    THEN toResponse(ValidationException(
            [k \in 1..Len(error.issues) |->
                [field |-> joinDot(error.issues[k].path),
                 message |-> error.issues[k].message]]))
    ELSE IF error.t = "Error"
    THEN toResponse(InternalServerException(
            IF production THEN "Internal Server Error" ELSE error.message))
    ELSE toResponse(InternalServerException("An unexpected error occurred"))

(***************************************************************************)
(* Context, body and parameters                                            *)
(***************************************************************************)
\* let _statusCode = 200 in createContext
DefaultStatus == 200

\* the Request a context is created for
Request(method, path, body) == [method |-> method, path |-> path, body |-> body]
JsRequest(req) == [t |-> "Request", v |-> req]
\* the context as a value handed to handlers and transforms
JsContext(ctx) == [t |-> "AstraContext", v |-> ctx]

\* createContext(req, params): a fresh object per call, with its own state
\* Map, _statusCode and _cookies
createContext(req, params) ==
    [req |-> req, params |-> params, query |-> <<>>, body |-> JsUndefined,
     state |-> <<>>, user |-> JsUndefined, statusCode |-> DefaultStatus,
     cookies |-> <<>>]

\* ctx.status(code)
status(ctx, code) == [ctx EXCEPT !.statusCode = code]

\* the writes a middleware or a handler makes to a context
BodyWrite(value) == [field |-> "body", key |-> "", value |-> value]
StateWrite(key, value) == [field |-> "state", key |-> key, value |-> value]
UserWrite(value) == [field |-> "user", key |-> "", value |-> value]
StatusWrite(code) == [field |-> "statusCode", key |-> "", value |-> code]
CookieWrite(name, value) == [field |-> "cookies", key |-> name, value |-> value]

\* ctx.body = value, ctx.state.set(key, value), ctx.user = value,
\* ctx.status(code), ctx.setCookie(name, value)
applyWrite(ctx, w) ==
    CASE w.field = "body" -> [ctx EXCEPT !.body = w.value]
      [] w.field = "state" -> [ctx EXCEPT !.state = (w.key :> w.value) @@ @]
      [] w.field = "user" -> [ctx EXCEPT !.user = w.value]
      [] w.field = "statusCode" -> status(ctx, w.value)
      [] w.field = "cookies" -> [ctx EXCEPT !.cookies = (w.key :> w.value) @@ @]

RECURSIVE applyWrites(_, _)
applyWrites(ctx, writes) ==
    IF writes = <<>> THEN ctx
    ELSE applyWrites(applyWrite(ctx, Head(writes)), Tail(writes))

\* serializeCookie with no options, and the Set-Cookie headers of the pending
\* cookies
serializeCookie(name, value) == name \o "=" \o value
cookieHeaders(ctx) ==
    { <<"Set-Cookie", serializeCookie(name, ctx.cookies[name])>> : name \in DOMAIN ctx.cookies }

\* ctx.json(data) without an explicit status
json(ctx, data) ==
    Response(JSONstringify(data), ctx.statusCode,
             {<<"Content-Type", "application/json">>} \cup cookieHeaders(ctx))

\* ctx.text(data) without an explicit status
text(ctx, data) ==
    Response(PlainText(data), ctx.statusCode,
             {<<"Content-Type", "text/plain">>} \cup cookieHeaders(ctx))

\* the user objects clients post, by what CreateUserSchema finds in them
GoodUser == JsObject([name |-> "Ada", email |-> "ada@example.org"])
ShortName == JsObject([name |-> "A", email |-> "ada@example.org"])
ShortNameBadEmail == JsObject([name |-> "A", email |-> "nowhere"])

\* the bodies a request arrives with: Content-Type header and payload
RequestBodies ==
    { [contentType |-> "", payload |-> PlainText("")],
      [contentType |-> "application/json", payload |-> PlainText("{")],
      [contentType |-> "application/json", payload |-> JSONstringify(GoodUser)],
      [contentType |-> "application/json", payload |-> JSONstringify(ShortName)],
      [contentType |-> "", payload |-> JSONstringify(ShortNameBadEmail)],
      [contentType |-> "text/plain", payload |-> JSONstringify(GoodUser)] }

\* JSON.parse / req.json(): the value, or no value when the text is not JSON
JSONparse(payload) == IF payload.text = "json" THEN <<payload.of>> ELSE <<>>

\* req.text() as a JavaScript string value
textOf(payload) ==
    IF payload.text = "plain" THEN payload.of ELSE JsString("<json text>")

\* parseBody(req)
parseBody(method, body) ==
    IF method \in {"GET", "HEAD", "OPTIONS"} THEN JsUndefined
    ELSE IF body.contentType = "application/json"
    THEN IF JSONparse(body.payload) = <<>> THEN JsUndefined \* the catch at the end
         ELSE JSONparse(body.payload)[1]
    ELSE IF body.contentType = "text/plain" THEN textOf(body.payload)
    ELSE IF textOf(body.payload) # JsString("")
    THEN IF JSONparse(body.payload) = <<>> THEN textOf(body.payload)
         ELSE JSONparse(body.payload)[1]
    ELSE JsUndefined

\* CreateUserSchema.safeParse(value): the issues found, in schema order
safeParseIssues(schema, value) ==
    IF value.t # "object"
    THEN << [path |-> <<>>, message |-> "Expected object"] >>
    ELSE (IF value.v.name = "A"
          THEN << [path |-> <<"name">>, message |-> "String must contain at least 2 character(s)"] >>
          ELSE <<>>)
         \o
         (IF value.v.email = "nowhere"
          THEN << [path |-> <<"email">>, message |-> "Invalid email"] >>
          ELSE <<>>)

\* a ParamMetadata entry as createParamDecorator and Req store it
ParamMetadata(type, index, key, schema, transform) ==
    [type |-> type, index |-> index, key |-> key, schema |-> schema,
     transform |-> transform]

\* Reflect.getMetadata(METADATA_KEYS.PARAMS, controller.prototype, handler) || []
ParamMetadataOf(controller, handler) ==
    CASE handler = "create" -> << ParamMetadata("body", 0, <<>>, "CreateUserSchema", "") >>
      [] handler = "getUser" -> << ParamMetadata("params", 0, Tail(colonId), "", "") >>
      [] handler = "posts" -> << ParamMetadata("user", 1, <<>>, "", ""),
                                 ParamMetadata("params", 0, Tail(colonUid), "", "") >>
      [] handler = "pong" -> << ParamMetadata("custom", 0, <<>>, "", "ctx.req") >>
      [] OTHER -> <<>>

RECURSIVE sortByIndex(_)
\* [...metadata].sort((a, b) => a.index - b.index)
sortByIndex(metadata) ==
    IF metadata = <<>> THEN <<>>
    ELSE LET k == CHOOSE j \in 1..Len(metadata) :
                    /\ \A i \in 1..Len(metadata) : metadata[j].index <= metadata[i].index
                    /\ \A i \in 1..(j - 1) : metadata[i].index # metadata[j].index
         IN  <<metadata[k]>> \o
             sortByIndex([i \in 1..(Len(metadata) - 1) |->
                            IF i < k THEN metadata[i] ELSE metadata[i + 1]])

\* the switch of resolveParameters: the value read for one parameter
parameterValue(ctx, param) ==
    CASE param.type = "body" -> ctx.body
      [] param.type = "params" ->
            IF param.key # <<>>
            THEN IF param.key \in DOMAIN ctx.params
                 THEN JsString(ctx.params[param.key]) ELSE JsUndefined
            ELSE JsObject(ctx.params)
      [] param.type = "query" -> JsObject(ctx.query)
      [] param.type = "ctx" -> JsContext(ctx)
      [] param.type = "user" -> ctx.user
      [] OTHER -> JsUndefined

\* param.transform(value) for the transform of Req, (ctx) => ctx.req: reading a
\* property of undefined or null throws a TypeError, of another value gives
\* that value's req property
transform(name, value) ==
    IF value.t \in {"undefined", "null"}
    THEN [ok |-> FALSE, v |-> Error("Cannot read properties of undefined (reading 'req')")]
    ELSE IF value.t = "AstraContext" THEN [ok |-> TRUE, v |-> JsRequest(value.v.req)]
    ELSE IF value.t = "object" /\ "req" \in DOMAIN value.v
    THEN [ok |-> TRUE, v |-> JsString(value.v.req)]
    ELSE [ok |-> TRUE, v |-> JsUndefined]

\* the keys CreateUserSchema declares
SchemaKeys == {"name", "email"}

\* result.data of a successful safeParse: a z.object schema strips the keys
\* it does not declare
safeParseData(schema, value) ==
    JsObject([k \in DOMAIN value.v \cap SchemaKeys |-> value.v[k]])

\* a loop turn that hands every value to the schema, an absent one included
resolveParameterValidatesAbsent(ctx, param) ==
    LET value == parameterValue(ctx, param)
        issues == IF param.schema # "" THEN safeParseIssues(param.schema, value) ELSE <<>>
        validated == IF param.schema # "" /\ issues = <<>>
                     THEN safeParseData(param.schema, value) ELSE value
    IN  IF issues # <<>> THEN [ok |-> FALSE, v |-> ZodError(issues)]
        ELSE IF param.transform # "" THEN transform(param.transform, validated)
        ELSE [ok |-> TRUE, v |-> validated]

\* one turn of the loop of resolveParameters: schema, then transform
resolveParameter(ctx, param) ==
    LET value == parameterValue(ctx, param)
        validates == param.schema # "" /\ value # JsUndefined
        issues == IF validates THEN safeParseIssues(param.schema, value) ELSE <<>>
        validated == IF validates /\ issues = <<>>
                     THEN safeParseData(param.schema, value) ELSE value
    IN  IF issues # <<>> THEN [ok |-> FALSE, v |-> ZodError(issues)]
        ELSE IF param.transform # "" THEN transform(param.transform, validated)
        ELSE [ok |-> TRUE, v |-> validated]

RECURSIVE resolveSorted(_, _, _)
\* the loop of resolveParameters over the parameters not yet resolved
resolveSorted(ctx, sorted, args) ==
    IF sorted = <<>> THEN [ok |-> TRUE, v |-> args]
    ELSE LET one == resolveParameter(ctx, Head(sorted))
         IN  IF ~one.ok THEN one
             ELSE resolveSorted(ctx, Tail(sorted), (Head(sorted).index :> one.v) @@ args)

\* resolveParameters(ctx, metadata): the arguments by position (a position no
\* parameter names is a hole of the array), or the error thrown
resolveParameters(ctx, metadata) == resolveSorted(ctx, sortByIndex(metadata), <<>>)

\* createResponse treating null and undefined like any other value
createResponseJsonForNull(result, ctx) ==
    IF result.t = "Response" THEN result.v
    ELSE IF result.t = "string" THEN text(ctx, result.v)
    ELSE json(ctx, result)

\* createResponse(result, ctx)
createResponse(result, ctx) ==
    IF result.t = "Response" THEN result.v
    ELSE IF result.t \in {"undefined", "null"} THEN Response(NoBody, 204, {})
    ELSE IF result.t = "string" THEN text(ctx, result.v)
    ELSE json(ctx, result)

(***************************************************************************)
(* Container (src/unnamed/part_002): providers, singletons, resolving      *)
(***************************************************************************)
MaxDepth == 6          \* nested resolve calls the call stack holds

\* an object a constructor or a factory made: the serial tells two apart
Instance(identifier, serial) == [t |-> "instance", of |-> identifier, serial |-> serial]

\* one call of Container.resolve under way or settled
Resolution(identifier, phase, value, provider) ==
    [identifier |-> identifier, phase |-> phase, value |-> value, provider |-> provider,
     failed |-> <<>>]
NoProvider == <<>>

\* the call that awaits the call at path (its createInstance), if any
parentOf(path) == SubSeq(path, 1, Len(path) - 1)

\* the promise of the call at path rejects: the Promise.all of the awaiting
\* createInstance keeps the first rejection among its dependencies
rejectResolution(st, path, identifier, error) ==
    LET made == [st EXCEPT !.resolutions =
                    (path :> [Resolution(identifier, "rejected", error, NoProvider)
                                EXCEPT !.failed =
                                    IF path \in DOMAIN st.resolutions
                                    THEN st.resolutions[path].failed ELSE <<>>]) @@ @]
        parent == parentOf(path)
    IN  IF Len(path) > 1 /\ made.resolutions[parent].failed = <<>>
        THEN [made EXCEPT !.resolutions[parent].failed = <<error>>]
        ELSE made

\* the promise of the call at path fulfils
fulfilResolution(st, path, identifier, value) ==
    [st EXCEPT !.resolutions =
        (path :> Resolution(identifier, "fulfilled", value, NoProvider)) @@ @]

\* a circular-dependency check that never fires
isResolvingNever(c, identifier) == FALSE

\* this.resolving.has(identifier)
isResolving(c, identifier) == identifier \in c.resolving

CircularDependency(identifier) ==
    Error("Circular dependency detected for: " \o identifier)
NoProviderFound(identifier) == Error("No provider found for: " \o identifier)
RangeError == Error("Maximum call stack size exceeded")

\* new target(...) or the value a factory returns, counted
construct(c, identifier) ==
    LET serial == IF identifier \in DOMAIN c.constructed
                  THEN c.constructed[identifier] + 1 ELSE 1
    IN  [container |-> [c EXCEPT !.constructed = (identifier :> serial) @@ @],
         instance |-> Instance(identifier, serial)]

RECURSIVE resolve(_, _, _)
RECURSIVE createInstance(_, _, _, _)

\* Container.resolve up to its first await, for the call named path:
\* st = [container, resolutions]. The calls createInstance makes for the
\* constructor parameters run in the same turn, depth first.
resolve(st, path, identifier) ==
    LET c == st.container
    IN  IF Len(path) > MaxDepth THEN rejectResolution(st, path, identifier, RangeError)
        ELSE IF isResolving(c, identifier)
        THEN rejectResolution(st, path, identifier, CircularDependency(identifier))
        ELSE IF identifier \in DOMAIN c.singletons
        THEN fulfilResolution(st, path, identifier, c.singletons[identifier])
        ELSE IF identifier \notin DOMAIN c.providers
        THEN IF IsClass(identifier)
             THEN resolve([st EXCEPT !.container = registerClass(c, identifier, TRUE)],
                          path, identifier)
             ELSE rejectResolution(st, path, identifier, NoProviderFound(identifier))
        ELSE
          LET provider == c.providers[identifier]
              entered == [st EXCEPT
                            !.container.resolving = @ \cup {identifier},
                            !.resolutions =
                                (path :> Resolution(identifier, "pending", JsUndefined,
                                                    <<provider>>)) @@ @]
          IN  CASE provider.kind = "useValue" ->
                     LET cached == [st EXCEPT !.container.singletons =
                                        IF provider.singleton
                                        THEN (identifier :> provider.useValue) @@ @
                                        ELSE @]
                     IN  fulfilResolution(cached, path, identifier, provider.useValue)
                [] provider.kind = "useFactory" -> entered
                [] OTHER -> createInstance(entered, path, provider.provide, 1)

\* Container.createInstance: paramTypes.map(async ...) from parameter k on
createInstance(st, path, target, k) ==
    IF k > Len(paramTypes(target)) THEN st
    ELSE LET token == IF k \in DOMAIN injections(target)
                      THEN injections(target)[k] ELSE paramTypes(target)[k]
         IN  createInstance(resolve(st, Append(path, k), token), path, target, k + 1)

\* the calls createInstance of the call at path made
dependenciesOf(calls, path) ==
    { p \in DOMAIN calls : Len(p) = Len(path) + 1 /\ parentOf(p) = path }

\* the call at path can go on after its await
canSettle(calls, path) ==
    /\ path \in DOMAIN calls
    /\ calls[path].phase = "pending"
    /\ \/ calls[path].failed # <<>>
       \/ \A p \in dependenciesOf(calls, path) : calls[p].phase = "fulfilled"

\* a resolve that hands out the instance it made without caching it
settleResolutionUncached(st, path) ==
    LET a == st.resolutions[path]
        left == [st EXCEPT !.container.resolving = @ \ {a.identifier}]
    IN  IF a.failed # <<>>
        THEN rejectResolution(left, path, a.identifier, a.failed[1])
        ELSE LET made == construct(left.container, a.identifier)
             IN  fulfilResolution([left EXCEPT !.container = made.container], path,
                                  a.identifier, made.instance)

\* Container.resolve after its await: the instance is made and cached, or the
\* rejection of a dependency is passed on; finally resolving.delete
settleResolution(st, path) ==
    LET a == st.resolutions[path]
        left == [st EXCEPT !.container.resolving = @ \ {a.identifier}]
    IN  IF a.failed # <<>>
        THEN rejectResolution(left, path, a.identifier, a.failed[1])
        ELSE LET made == construct(left.container, a.identifier)
                 cached == IF a.provider[1].singleton
                           THEN [made.container EXCEPT
                                    !.singletons = (a.identifier :> made.instance) @@ @]
                           ELSE made.container
             IN  fulfilResolution([left EXCEPT !.container = cached], path,
                                  a.identifier, made.instance)

(***************************************************************************)
(* AstraAPI: construction                                                  *)
(***************************************************************************)
docs == <<"d","o","c","s">>

\* mergeOptions(options): the options the dispatch core reads; production is
\* NODE_ENV === "production"
mergeOptions(given) ==
    [cors |-> IF "cors" \in DOMAIN given THEN given.cors ELSE FALSE,
     logging |-> IF "logging" \in DOMAIN given THEN given.logging ELSE TRUE,
     openapi |-> [enabled |-> IF "openapi" \in DOMAIN given THEN given.openapi ELSE TRUE,
                  path |-> Slash \o docs],
     production |-> IF "production" \in DOMAIN given THEN given.production ELSE FALSE]

\* the options applications are created with
OptionChoices ==
    { [logging |-> FALSE],
      [cors |-> TRUE],
      [logging |-> FALSE, openapi |-> FALSE, production |-> TRUE] }

\* the controllers applications register, in order
Applications ==
    { <<"UserController", "AccountController", "PingController", "StatusController",
        "FileController">>,
      <<"AccountController">> }

\* new AstraAPI(options): the global router after the constructor
constructor(opts) ==
    LET withCors == IF opts.cors
                    THEN [NewRouter EXCEPT !.globalMiddlewares = Append(@, "cors")]
                    ELSE NewRouter
    IN  IF opts.logging
        THEN [withCors EXCEPT !.globalMiddlewares = Append(@, "logging")]
        ELSE withCors

RECURSIVE register(_, _)
\* app.register(...controllers)
register(st, controllers) ==
    IF controllers = <<>> THEN st
    ELSE register(registerController(st, Head(controllers)), Tail(controllers))

(***************************************************************************)
(* AstraAPI: one request                                                   *)
(***************************************************************************)
MaxInFlight == 2       \* connections served at the same time
MaxNextCalls == 2      \* times one middleware run invokes its continuation

Connections == 1..MaxInFlight

\* a settled promise: fulfilled with a Response or rejected with an error
Fulfilled(response) == [ok |-> TRUE, v |-> response]
Rejected(error) == [ok |-> FALSE, v |-> error]

\* One run of middlewares[i], or of finalHandler for i = middlewares.length:
\*   phase  none     not called
\*          active   called, has not invoked its continuation
\*          waiting  awaits the promise of its last next()
\*          resumed  that promise has settled with res
\*          finished returned or threw
\*   calls  how many times it invoked next()
\*   act    "returned" / "threw" when it finished without invoking next()
NewFrame ==
    [phase |-> "none", calls |-> 0, act |-> "", res |-> Fulfilled(JsUndefined), out |-> <<>>]

\* let index = -1 in executeMiddlewareChain
NoIndex == -1

\* the state of handleRequest for a request that has just arrived
NewRequest(method, path, body) ==
    [pc |-> "routing", method |-> method, path |-> path, body |-> body,
     match |-> null, ctx |-> <<>>, index |-> NoIndex,
     frames |-> <<>>, started |-> <<>>, handlerCalls |-> <<>>,
     statusCalls |-> <<>>, returned |-> <<>>, created |-> <<>>, thrown |-> <<>>,
     response |-> <<>>, contexts |-> 0, writes |-> <<>>]

IdleRequest == [NewRequest("", <<>>, [contentType |-> "", payload |-> PlainText("")])
                    EXCEPT !.pc = "idle"]

\* no run of the request's chain can take a step any more
Settled(q) ==
    /\ q.pc \in {"idle", "done"}
    /\ \A i \in DOMAIN q.frames : q.frames[i].phase \in {"none", "finished"}

\* the index variable the dispatch closure of another chain would read
chainIndexShared(reqs, r) ==
    LET running == {c \in DOMAIN reqs : reqs[c].pc = "chain"} \cup {r}
        top == CHOOSE c \in running : \A d \in running : reqs[d].index <= reqs[c].index
    IN  reqs[top].index

\* the index variable the dispatch closure of chain r reads: its own
chainIndex(reqs, r) == reqs[r].index

\* the guard of dispatch letting an index run again
DispatchRejectsBelow(i, index) == i < index

\* if (i <= index) throw new Error("next() called multiple times")
DispatchRejects(i, index) == i <= index

\* dispatch(i) up to the call of the middleware or of finalHandler
dispatch(reqs, r, i) ==
    IF DispatchRejects(i, chainIndex(reqs, r))
    THEN [q |-> reqs[r], rejected |-> TRUE]
    ELSE [q |-> [reqs[r] EXCEPT !.index = i,
                                !.frames[i] = [NewFrame EXCEPT !.phase = "active"],
                                !.started = Append(@, i)],
          rejected |-> FALSE]

\* a dispatch that reports the second next() as a client error
ProtocolErrorAsBadRequest ==
    [t |-> "HttpException", name |-> "BadRequestException", status |-> 400,
     code |-> "BAD_REQUEST", message |-> "next() called multiple times", details |-> <<>>]

\* throw new Error("next() called multiple times") in dispatch
ProtocolError == Error("next() called multiple times")

\* a chain that recovers by itself: the rejection of a step reaches the step
\* that awaits it as an empty 200 response
settleRecovering(q, i, out, production) ==
    LET given == IF out.ok \/ i = 0 THEN out ELSE Fulfilled(Response(NoBody, 200, {}))
        done == [q EXCEPT !.frames[i].phase = "finished", !.frames[i].out = <<given>>]
    IN  IF i = 0
        THEN [done EXCEPT !.pc = "done",
                          !.response = IF given.ok THEN <<given.v>>
                                       ELSE <<handleException(given.v, production)>>]
        ELSE IF q.frames[i - 1].phase = "waiting"
        THEN [done EXCEPT !.frames[i - 1].phase = "resumed", !.frames[i - 1].res = given]
        ELSE done

\* the run i settles its promise with out: the awaiting caller resumes, or, for
\* dispatch(0), handleRequest returns the response or handleException's
settle(q, i, out, production) ==
    LET done == [q EXCEPT !.frames[i].phase = "finished", !.frames[i].out = <<out>>]
    IN  IF i = 0
        THEN [done EXCEPT !.pc = "done",
                          !.response = IF out.ok THEN <<out.v>>
                                       ELSE <<handleException(out.v, production)>>]
        ELSE IF q.frames[i - 1].phase = "waiting"
        THEN [done EXCEPT !.frames[i - 1].phase = "resumed", !.frames[i - 1].res = out]
        ELSE done

\* the middleware of run i
middlewareOf(q, i) == q.match.route.middlewares[i + 1]

IsMiddleware(q, i) == i \in DOMAIN q.frames /\ i < Len(q.match.route.middlewares)

\* the middleware functions the application wrote itself
UserMiddlewares == {"tenant", "throttle", "audit", "etag"}

\* the response of the CORS middleware: same body and status, CORS headers set
withCorsHeaders(response) ==
    Response(response.body, response.status,
             {h \in response.headers : h[1] # "Access-Control-Allow-Origin"}
                \cup {<<"Access-Control-Allow-Origin", "*">>})

(***************************************************************************)
(* Container: resolve calls of concurrent callers                          *)
(***************************************************************************)
\* the calls the caller r caused, its own included
callsOf(calls, r) == { p \in DOMAIN calls : p[1] = r }

\* container.resolve(identifier) called by r from outside the container
Resolve(r, identifier) ==
    /\ callsOf(resolutions, r) = {}
    /\ LET st == resolve([container |-> container, resolutions |-> resolutions],
                         <<r>>, identifier)
       IN  /\ container' = st.container
           /\ resolutions' = st.resolutions
    /\ UNCHANGED <<router, console, addRouteLog, registrations, lastOp, options, requests>>

\* a pending resolve call goes on after its await
SettleResolution(path) ==
    /\ canSettle(resolutions, path)
    /\ LET st == settleResolution([container |-> container, resolutions |-> resolutions],
                                  path)
       IN  /\ container' = st.container
           /\ resolutions' = st.resolutions
    /\ UNCHANGED <<router, console, addRouteLog, registrations, lastOp, options, requests>>

\* the caller r has its answer and every call it caused has settled
forget(calls, r) == [p \in DOMAIN calls \ callsOf(calls, r) |-> calls[p]]
Forget(r) ==
    /\ callsOf(resolutions, r) # {}
    /\ \A p \in callsOf(resolutions, r) : resolutions[p].phase # "pending"
    /\ resolutions' = forget(resolutions, r)
    /\ UNCHANGED <<router, console, addRouteLog, registrations, lastOp, options, requests,
                   container>>

\* what the callers ask the container for
Roots == {"ReportService", "CheckoutService", "OrderService", "TreeNode", "CLOCK", "STORAGE"}

NextContainer ==
    \/ \E r \in Connections, identifier \in Roots : Resolve(r, identifier)
    \/ \E path \in DOMAIN resolutions : SettleResolution(path)
    \/ \E r \in Connections : Forget(r)

SpecContainer == Init /\ [][NextContainer]_vars

(***************************************************************************)
(* AstraAPI: the steps of handleRequest                                    *)
(***************************************************************************)
\* one context object for all requests: what is written for one request shows
\* in the context of every other request that has one
sharedContext(reqs, r, after) ==
    [c \in DOMAIN reqs |->
        IF c = r THEN after
        ELSE IF reqs[c].contexts > 0 /\ after.contexts > 0
        THEN [reqs[c] EXCEPT !.ctx = after.ctx]
        ELSE reqs[c]]

\* the requests after a step of request r: ctx is the object createContext
\* made for r alone (its params, query, state Map, cookie Map and status cell
\* are made in the same call), so only the record of r changes
ownContext(reqs, r, after) == [reqs EXCEPT ![r] = after]

\* const methodCheck = ["GET", "POST", "PUT", "PATCH", "DELETE"]
methodCheck == {"GET", "POST", "PUT", "PATCH", "DELETE"}

\* handleCorsPreFlight(req) with the default CorsOptions
handleCorsPreFlight ==
    Response(NoBody, 204,
             {<<"Access-Control-Allow-Origin", "*">>,
              <<"Access-Control-Allow-Methods", "GET, POST, PUT, PATCH, DELETE, OPTIONS">>,
              <<"Access-Control-Allow-Headers", "Content-Type, Authorization">>,
              <<"Access-Control-Max-Age", "86400">>})

\* serveSwaggerUI()
serveSwaggerUI == Response(PlainText("<swagger ui>"), 200, {<<"Content-Type", "text/html">>})

\* serveOpenAPISpec()
serveOpenAPISpec ==
    Response(JSONstringify(JsObject([openapi |-> "3.0.0"])), 200,
             {<<"Content-Type", "application/json">>})

openapiJson == <<"o","p","e","n","a","p","i",".","j","s","o","n">>

\* handleRequest from its start to its first await: the response it returns
\* at once, or the context it goes on with
handleRequest(rt, opts, method, path, body) ==
    LET q == NewRequest(method, path, body)
        found == match(rt, method, path)
        answer(response) == [q EXCEPT !.pc = "done", !.response = <<response>>]
    IN  IF method = "OPTIONS" /\ opts.cors THEN answer(handleCorsPreFlight)
        ELSE IF opts.openapi.enabled /\ path = opts.openapi.path
        THEN answer(serveSwaggerUI)
        ELSE IF opts.openapi.enabled /\ path = opts.openapi.path \o Slash \o openapiJson
        THEN answer(serveOpenAPISpec)
        ELSE IF found = null
        THEN IF \E m \in methodCheck : m # method /\ match(rt, m, path) # null
             THEN answer(handleException(MethodNotAllowedException, opts.production))
             ELSE answer(handleException(NotFoundException("Route not found"),
                                         opts.production))
        ELSE [q EXCEPT !.pc = "body", !.match = found,
                       !.ctx = createContext(Request(method, path, body), found.params),
                       !.contexts = @ + 1]

\* A request arrives on connection r.
HandleRequest(r, method, path, body) ==
    /\ requests[r].pc = "idle"
    /\ requests' = ownContext(requests, r, handleRequest(router, options, method, path, body))
    /\ UNCHANGED <<router, console, addRouteLog, registrations, lastOp, options, container, resolutions>>

\* ctx.body = await parseBody(req), then executeMiddlewareChain up to dispatch(0)
\* the terminal handler of request r begins when dispatch reaches the end of
\* the middleware list: container.resolve(match.route.controller) runs up to
\* its first await in the same turn. entered: this step started the handler.
resolveController(r, q, entered) ==
    IF entered
    THEN resolve([container |-> container, resolutions |-> resolutions], <<r>>,
                 q.match.route.controller)
    ELSE [container |-> container, resolutions |-> resolutions]

\* the step from before to after started the terminal handler of the request
entersHandler(before, after) ==
    LET n == Len(after.match.route.middlewares)
    IN  /\ after.frames[n].phase = "active"
        /\ before.frames = <<>> \/ before.frames[n].phase = "none"

\* the fetch callback has returned the response of handleRequest and every
\* promise of the request has settled: nothing of the request is kept
Respond(r) ==
    /\ requests[r].pc = "done"
    /\ Settled(requests[r])
    /\ \A p \in callsOf(resolutions, r) : resolutions[p].phase # "pending"
    /\ requests' = ownContext(requests, r, IdleRequest)
    /\ resolutions' = forget(resolutions, r)
    /\ UNCHANGED <<router, console, addRouteLog, registrations, lastOp, options, container>>

ParseBody(r) ==
    /\ requests[r].pc = "body"
    /\ LET q == requests[r]
           n == Len(q.match.route.middlewares)
           ready == [requests EXCEPT
                        ![r] = [q EXCEPT !.pc = "chain",
                                         !.ctx = applyWrite(@, BodyWrite(parseBody(q.method, q.body))),
                                         !.writes = Append(@, BodyWrite(parseBody(q.method, q.body))),
                                         !.index = NoIndex,
                                         !.frames = [i \in 0..n |-> NewFrame]]]
           d == dispatch(ready, r, 0)
           after == IF d.rejected
                    THEN [ready[r] EXCEPT
                            !.pc = "done",
                            !.response = <<handleException(ProtocolError,
                                                           options.production)>>]
                    ELSE d.q
           st == resolveController(r, after, entersHandler(q, after))
       IN  /\ requests' = ownContext(requests, r, after)
           /\ container' = st.container
           /\ resolutions' = st.resolutions
    /\ UNCHANGED <<router, console, addRouteLog, registrations, lastOp, options>>

\* the run i invokes next(): dispatch(i + 1); a rejection is what the run's
\* await of that promise then sees
\* what the application's middleware write to the context of the request they
\* run for, before they invoke next(): a request id in the state store, a
\* session cookie, the authenticated principal
middlewareWrites(name, r) ==
    CASE name = "tenant" -> <<StateWrite("requestId", r)>>
      [] name = "throttle" -> <<CookieWrite("sid", "s" \o ToString(r))>>
      [] name = "audit" -> <<UserWrite(JsObject([sub |-> r]))>>
      [] OTHER -> <<>>

\* the request r after middleware run i has made its writes
written(reqs, r, i) ==
    LET q == reqs[r]
        writes == IF q.frames[i].calls = 0
                  THEN middlewareWrites(middlewareOf(q, i), r) ELSE <<>>
    IN  [reqs EXCEPT ![r] = [q EXCEPT !.ctx = applyWrites(@, writes),
                                      !.writes = @ \o writes]]

invokeNext(given, r, i) ==
    LET reqs == written(given, r, i)
        d == dispatch(reqs, r, i + 1)
    IN  IF d.rejected
        THEN [d.q EXCEPT !.frames[i].calls = @ + 1, !.frames[i].phase = "resumed",
                         !.frames[i].res = Rejected(ProtocolError)]
        ELSE [d.q EXCEPT !.frames[i].calls = @ + 1, !.frames[i].phase = "waiting"]

\* A middleware invokes its continuation for the first time.
CallNext(r, i) ==
    /\ requests[r].pc \in {"chain", "done"}
    /\ IsMiddleware(requests[r], i)
    /\ requests[r].frames[i].phase = "active"
    /\ LET after == invokeNext(requests, r, i)
           st == resolveController(r, after, entersHandler(requests[r], after))
       IN  /\ requests' = ownContext(requests, r, after)
           /\ container' = st.container
           /\ resolutions' = st.resolutions
    /\ UNCHANGED <<router, console, addRouteLog, registrations, lastOp, options>>

\* A middleware of the application invokes its continuation again: while the
\* promise of the earlier call is pending, or after it was fulfilled.
CallNextAgain(r, i) ==
    /\ requests[r].pc \in {"chain", "done"}
    /\ IsMiddleware(requests[r], i)
    /\ middlewareOf(requests[r], i) \in UserMiddlewares
    /\ LET f == requests[r].frames[i]
       IN  /\ f.calls >= 1
           /\ f.calls < MaxNextCalls
           /\ f.phase = "waiting" \/ (f.phase = "resumed" /\ f.res.ok)
    /\ LET after == invokeNext(requests, r, i)
           st == resolveController(r, after, entersHandler(requests[r], after))
       IN  /\ requests' = ownContext(requests, r, after)
           /\ container' = st.container
           /\ resolutions' = st.resolutions
    /\ UNCHANGED <<router, console, addRouteLog, registrations, lastOp, options>>

\* A middleware of the application answers itself, without invoking next().
\* a middleware that answers by itself and goes on down the chain all the same
shortCircuitAndProceed(q, i, production) ==
    LET answered == [q EXCEPT !.frames[i].act = "returned"]
        below == [answered EXCEPT !.index = i + 1,
                                  !.frames[i + 1] = [NewFrame EXCEPT !.phase = "active"],
                                  !.started = Append(@, i + 1)]
    IN  settle(below, i, Fulfilled(json(q.ctx, JsObject([cached |-> TRUE]))), production)

\* a middleware returning a response of its own without invoking next()
shortCircuit(q, i, production) ==
    LET answered == [q EXCEPT !.frames[i].act = "returned"]
    IN  settle(answered, i, Fulfilled(json(q.ctx, JsObject([cached |-> TRUE]))), production)

ShortCircuit(r, i) ==
    /\ requests[r].pc \in {"chain", "done"}
    /\ IsMiddleware(requests[r], i)
    /\ middlewareOf(requests[r], i) \in UserMiddlewares
    /\ requests[r].frames[i].phase = "active"
    /\ requests' = ownContext(requests, r,
                               shortCircuit(requests[r], i, options.production))
    /\ UNCHANGED <<router, console, addRouteLog, registrations, lastOp, options, container, resolutions>>

\* the errors a middleware or a handler of the application throws
ThrownErrors == { ForbiddenException("Forbidden"), Error("boom") }

\* A middleware of the application throws before invoking next().
MiddlewareThrows(r, i, error) ==
    /\ requests[r].pc \in {"chain", "done"}
    /\ IsMiddleware(requests[r], i)
    /\ middlewareOf(requests[r], i) \in UserMiddlewares
    /\ requests[r].frames[i].phase = "active"
    /\ LET q == [requests[r] EXCEPT !.frames[i].act = "threw", !.thrown = Append(@, error)]
       IN  requests' = ownContext(requests, r,
                                  settle(q, i, Rejected(error), options.production))
    /\ UNCHANGED <<router, console, addRouteLog, registrations, lastOp, options, container, resolutions>>

\* A middleware goes on after its await of next(): it returns the response
\* (the CORS middleware a copy with its headers) or the rejection propagates
\* (the logging middleware rethrows what it caught).
MiddlewareReturns(r, i) ==
    /\ requests[r].pc \in {"chain", "done"}
    /\ IsMiddleware(requests[r], i)
    /\ requests[r].frames[i].phase = "resumed"
    /\ LET q == requests[r]
           res == q.frames[i].res
           out == IF res.ok /\ middlewareOf(q, i) = "cors"
                  THEN Fulfilled(withCorsHeaders(res.v)) ELSE res
       IN  requests' = ownContext(requests, r, settle(q, i, out, options.production))
    /\ UNCHANGED <<router, console, addRouteLog, registrations, lastOp, options, container, resolutions>>

\* what a handler of the application does: returns value, after ctx.status(code)
\* when status is <<code>>, or throws value
Returns(value, code) == [throws |-> FALSE, value |-> value, status |-> code]
Throws(error) == [throws |-> TRUE, value |-> error, status |-> <<>>]

ReturnValues ==
    { JsResponse(Response(PlainText("raw"), 202, {})), JsUndefined, JsNull,
      JsString("pong"), JsObject([id |-> 1]), JsArray(<<1, 2>>), JsNumber(7),
      JsBoolean(FALSE) }

HandlerOutcomes ==
    { Returns(value, code) : value \in ReturnValues, code \in {<<>>, <<201>>} }
        \cup { Throws(error) : error \in ThrownErrors }

\* finalHandler: resolveParameters, the handler, createResponse. (The
\* controller instance comes from container.resolve.)
finalHandler(q, n, controllerInstance, outcome, production) ==
    LET route == q.match.route
        resolved == resolveParameters(q.ctx, ParamMetadataOf(route.controller, route.handler))
        invoked == [q EXCEPT !.handlerCalls = Append(@, resolved.v)]
        ctx == IF outcome.status # <<>> THEN status(q.ctx, outcome.status[1]) ELSE q.ctx
        response == createResponse(outcome.value, ctx)
    IN  IF controllerInstance.phase = "rejected"
        THEN settle([q EXCEPT !.thrown = Append(@, controllerInstance.value)], n,
                    Rejected(controllerInstance.value), production)
        ELSE IF ~resolved.ok
        THEN settle([q EXCEPT !.thrown = Append(@, resolved.v)], n,
                    Rejected(resolved.v), production)
        ELSE IF outcome.throws
        THEN settle([invoked EXCEPT !.thrown = Append(@, outcome.value)], n,
                    Rejected(outcome.value), production)
        ELSE settle([invoked EXCEPT !.ctx = ctx,
                                    !.writes = @ \o [k \in 1..Len(outcome.status) |->
                                                        StatusWrite(outcome.status[k])],
                                    !.statusCalls = @ \o outcome.status,
                                    !.returned = Append(@, outcome.value),
                                    !.created = Append(@, response)],
                    n, Fulfilled(response), production)

\* The terminal handler of the chain runs.
FinalHandler(r, outcome) ==
    /\ requests[r].pc \in {"chain", "done"}
    /\ DOMAIN requests[r].frames # {}
    /\ LET q == requests[r]
           n == Len(q.match.route.middlewares)
       IN  /\ q.frames[n].phase = "active"
           /\ <<r>> \in DOMAIN resolutions
           /\ resolutions[<<r>>].phase # "pending"
           /\ requests' = ownContext(requests, r,
                                      finalHandler(q, n, resolutions[<<r>>], outcome,
                                                   options.production))
    /\ UNCHANGED <<router, console, addRouteLog, registrations, lastOp, options, container, resolutions>>

(***************************************************************************)
(* AstraAPI: the server                                                    *)
(***************************************************************************)
\* the application after new AstraAPI(given), register(...app) and listen()
listening(given, app) ==
        LET opts == mergeOptions(given)
            st == register([router |-> constructor(opts), console |-> <<>>,
                            addRouteLog |-> <<>>], app)
        IN  /\ options = opts
            /\ router = st.router
            /\ console = st.console
            /\ addRouteLog = st.addRouteLog
            /\ registrations = Len(app)
            /\ lastOp = [op |-> "listen"]
            /\ requests = [r \in Connections |-> IdleRequest]
            /\ container = LoadedContainer
            /\ resolutions = <<>>

InitServer == \E given \in OptionChoices, app \in Applications : listening(given, app)

\* the request paths clients send
\* what the handler methods of the application do when invoked: every kind
\* of result for profile, a few for the others
HandlerOutcomesOf(handler) ==
    IF handler = "profile" THEN HandlerOutcomes
    ELSE { Returns(JsObject([id |-> 1]), <<201>>), Returns(JsString("pong"), <<>>),
           Throws(ForbiddenException("Forbidden")) }

ServerPaths ==
    { Slash \o users \o Slash \o <<"4","2">>,
      Slash \o users \o Slash \o profile,
      Slash \o users \o Slash,
      Slash \o users \o Slash \o <<"4","2">> \o Slash \o posts,
      Slash \o users \o Slash \o posts,
      Slash \o ping,
      Slash \o files \o Slash \o <<"a">>,
      Slash \o files,
      Slash \o files \o Slash,
      Slash \o docs,
      Slash \o docs \o Slash \o openapiJson,
      Slash \o <<"n","o","n","e">> }

\* the bodies sent with a method
BodiesFor(method) ==
    IF method = "POST" THEN RequestBodies
    ELSE { [contentType |-> "", payload |-> PlainText("")] }

\* the steps of the request on connection r
Serve(r) ==
    \/ \E method \in Methods, path \in ServerPaths :
          \E body \in BodiesFor(method) : HandleRequest(r, method, path, body)
    \/ Respond(r)
    \/ ParseBody(r)
    \/ \E i \in DOMAIN requests[r].frames :
          \/ CallNext(r, i)
          \/ CallNextAgain(r, i)
          \/ ShortCircuit(r, i)
          \/ \E error \in ThrownErrors : MiddlewareThrows(r, i, error)
          \/ MiddlewareReturns(r, i)
    \/ /\ DOMAIN requests[r].frames # {}
       /\ \E outcome \in HandlerOutcomesOf(requests[r].match.route.handler) :
              FinalHandler(r, outcome)

\* One connection: a request is served to its end before the next arrives.
NextServer ==
    \/ Serve(1)
    \/ \E path \in DOMAIN resolutions : SettleResolution(path)

SpecServer == InitServer /\ [][NextServer]_vars

\* Requests to POST /users/ on all connections at once; of the route's
\* middleware the first keeps to the protocol, the others may invoke next()
\* again.
InitConcurrent ==
    \E app \in {a \in Applications : Len(a) > 1} : listening([logging |-> FALSE], app)

ConcurrentBodies ==
    {b \in RequestBodies : b.contentType = "application/json" /\ b.payload.of = GoodUser}

Concurrent(r) ==
    \/ \E body \in ConcurrentBodies :
          HandleRequest(r, "POST", Slash \o users \o Slash, body)
    \/ Respond(r)
    \/ ParseBody(r)
    \/ \E i \in DOMAIN requests[r].frames :
          \/ CallNext(r, i)
          \/ i = 1 /\ CallNextAgain(r, i)
          \/ MiddlewareReturns(r, i)
    \/ FinalHandler(r, Returns(JsObject([id |-> 1]), <<201>>))

NextConcurrent ==
    \/ \E r \in Connections : Concurrent(r)
    \/ \E path \in DOMAIN resolutions : SettleResolution(path)

SpecConcurrent == InitConcurrent /\ [][NextConcurrent]_vars

(***************************************************************************)
(* AstraAPI.resolveParameters over the bindings decorators can store       *)
(***************************************************************************)
MaxParamIndex == 2     \* the last argument position a binding names

\* a user object with a key CreateUserSchema does not declare
UserWithReq == JsObject([name |-> "Ada", email |-> "ada@example.org", req |-> "r"])

ParameterBodies ==
    RequestBodies \cup
        { [contentType |-> "application/json", payload |-> JSONstringify(UserWithReq)] }

\* what Body, CurrentUser, Ctx and Req store for the parameter at index, and a
\* binding with both a schema and a transform as ParamMetadata allows
Bindings(index) ==
    { ParamMetadata("body", index, <<>>, "CreateUserSchema", ""),
      ParamMetadata("body", index, <<>>, "", ""),
      ParamMetadata("body", index, <<>>, "CreateUserSchema", "ctx.req"),
      ParamMetadata("user", index, <<>>, "CreateUserSchema", ""),
      ParamMetadata("user", index, <<>>, "", ""),
      ParamMetadata("ctx", index, <<>>, "", ""),
      ParamMetadata("custom", index, <<>>, "", "ctx.req") }

\* the parameter metadata of a handler method with one or two bound parameters
MetadataChoices ==
    { <<a>> : a \in UNION { Bindings(i) : i \in 0..MaxParamIndex } } \cup
    UNION { { <<a, b>> : a \in Bindings(i), b \in Bindings(j) } :
                <<i, j>> \in { ij \in (0..MaxParamIndex) \X (0..MaxParamIndex) :
                                    ij[1] # ij[2] } }

\* the lines of the final handler that resolve the arguments and call the
\* handler method with them
callHandler(ctx, metadata) ==
    LET resolved == resolveParameters(ctx, metadata)
    IN  [result |-> resolved,
         handlerCalls |-> IF resolved.ok THEN <<resolved.v>> ELSE <<>>]

\* a request has arrived for a handler whose parameters are bound by metadata
InitParameters ==
    /\ options = mergeOptions(<<>>)
    /\ router = constructor(options)
    /\ console = <<>>
    /\ addRouteLog = <<>>
    /\ registrations = 0
    /\ requests = [r \in Connections |-> IdleRequest]
    /\ container = LoadedContainer
    /\ resolutions = <<>>
    /\ \E method \in {"GET", "POST"}, body \in ParameterBodies, metadata \in MetadataChoices :
            lastOp = [op |-> "arguments", method |-> method, body |-> body,
                      metadata |-> metadata]

\* ctx.body = await parseBody(req), then the final handler
ResolveParameters ==
    /\ lastOp.op = "arguments"
    /\ LET ctx == applyWrite(createContext(Request(lastOp.method, Slash \o users, lastOp.body),
                                           <<>>),
                             BodyWrite(parseBody(lastOp.method, lastOp.body)))
           called == callHandler(ctx, lastOp.metadata)
       IN  lastOp' = [op |-> "resolveParameters", method |-> lastOp.method,
                      body |-> lastOp.body, metadata |-> lastOp.metadata, ctx |-> ctx,
                      result |-> called.result, handlerCalls |-> called.handlerCalls]
    /\ UNCHANGED <<router, console, addRouteLog, registrations, options, requests,
                   container, resolutions>>

NextParameters == ResolveParameters

SpecParameters == InitParameters /\ [][NextParameters]_vars

(***************************************************************************)
(* Guards (src/unnamed/part_003, src/Injection/auth/index.ts)              *)
(***************************************************************************)
\* the bearer tokens clients present, by what AstraAuth.verify finds
BearerTokens == {"valid", "garbled", "forged", "expired"}

\* the Authorization header of a request: none, another scheme, or a bearer token
AuthorizationHeaders ==
    { <<>>, <<"Basic", "dXNlcg">> } \cup { <<"Bearer", token>> : token \in BearerTokens }

\* AstraAuth.verify(token): the payload, or the exception thrown
verify(token) ==
    CASE token = "garbled" -> [ok |-> FALSE, v |-> UnauthorizedException("Invalid token format")]
      [] token = "forged" -> [ok |-> FALSE, v |-> UnauthorizedException("Invalid token signature")]
      [] token = "expired" -> [ok |-> FALSE, v |-> UnauthorizedException("Token expired")]
      [] OTHER -> [ok |-> TRUE, v |-> JsObject([sub |-> 1, roles |-> <<"admin">>])]

\* AuthGuard.canActivate(ctx) of a guard made with the auth object `auth`
\* (<<>> when the guard was made without one): the promise's outcome and the
\* context afterwards. A call on a missing auth object is a TypeError, which
\* the catch turns into "Invalid token" like any error that is not a 401.
authGuardCanActivate(auth, ctx) ==
    LET header == ctx.authorization
    IN  IF header = <<>> \/ header[1] # "Bearer"
        THEN [ok |-> FALSE, v |-> UnauthorizedException("No token provided"), ctx |-> ctx]
        ELSE IF auth = <<>>
        THEN [ok |-> FALSE, v |-> UnauthorizedException("Invalid token"), ctx |-> ctx]
        ELSE LET verified == verify(header[2])
             IN  IF verified.ok
                 THEN [ok |-> TRUE, v |-> TRUE, ctx |-> [ctx EXCEPT !.user = verified.v]]
                 ELSE IF verified.v.t = "HttpException"
                         /\ verified.v.name = "UnauthorizedException"
                 THEN [ok |-> FALSE, v |-> verified.v, ctx |-> ctx]
                 ELSE [ok |-> FALSE, v |-> UnauthorizedException("Invalid token"),
                       ctx |-> ctx]

\* the guards UseGuards is given: a Guard class, which the middleware
\* instantiates without arguments, or a Guard instance; besides AuthGuard, a
\* guard that admits every request and one that admits none
GuardsGiven ==
    { [kind |-> kind, of |-> of] :
        kind \in {"class", "instance"}, of \in {"AuthGuard", "OpenGuard", "ClosedGuard"} }

\* guardInstance.canActivate(ctx) for the guard the middleware holds
canActivate(guard, ctx) ==
    CASE guard.of = "AuthGuard" ->
            authGuardCanActivate(IF guard.kind = "class" THEN <<>> ELSE <<"auth">>, ctx)
      [] guard.of = "OpenGuard" -> [ok |-> TRUE, v |-> TRUE, ctx |-> ctx]
      [] OTHER -> [ok |-> TRUE, v |-> FALSE, ctx |-> ctx]

\* the middleware of UseGuards after its await: next() although the guard refused
guardResumesLenient(run) ==
    [run EXCEPT !.pc = "done", !.next = @ + 1]

\* the middleware of UseGuards after its await of canActivate
guardResumes(run) ==
    IF ~run.activation[1].ok
    THEN [run EXCEPT !.pc = "done", !.thrown = <<run.activation[1].v>>]
    ELSE IF ~run.activation[1].v
    THEN [run EXCEPT !.pc = "done", !.thrown = <<UnauthorizedException("Access denied")>>]
    ELSE [run EXCEPT !.pc = "done", !.next = @ + 1]

\* the users a context carries when the Roles middleware runs
ContextUsers ==
    { JsUndefined, JsNull, JsObject([sub |-> 1]), JsObject([sub |-> 1, roles |-> <<>>]),
      JsObject([sub |-> 1, roles |-> <<"user">>]),
      JsObject([sub |-> 1, roles |-> <<"moderator">>]),
      JsObject([sub |-> 1, roles |-> <<"user", "admin">>]) }

\* the role lists Roles is given
RolesGiven == { <<>>, <<"admin">>, <<"admin", "moderator">> }

\* user.roles || []
userRolesOf(user) == IF "roles" \in DOMAIN user.v THEN user.v.roles ELSE <<>>

\* roles.join(", ")
RECURSIVE joinComma(_)
joinComma(roles) ==
    IF roles = <<>> THEN ""
    ELSE IF Len(roles) = 1 THEN roles[1]
    ELSE roles[1] \o ", " \o joinComma(Tail(roles))

\* the middleware Roles(...roles) builds
roleMiddleware(run) ==
    LET user == run.ctx.user
    IN  IF user.t \in {"undefined", "null"}
        THEN [run EXCEPT !.pc = "done",
                         !.thrown = <<UnauthorizedException("Authentication required")>>]
        ELSE IF ~\E k \in DOMAIN run.roles, l \in DOMAIN userRolesOf(user) :
                    run.roles[k] = userRolesOf(user)[l]
        THEN [run EXCEPT !.pc = "done",
                         !.thrown = <<ForbiddenException("Required roles: "
                                                         \o joinComma(run.roles))>>]
        ELSE [run EXCEPT !.pc = "done", !.next = @ + 1]

\* a guard-style middleware is called with a context and a continuation
GuardRun(built, guard, roles, ctx) ==
    [op |-> "guard", built |-> built, guard |-> guard, roles |-> roles, ctx |-> ctx,
     pc |-> "called", activation |-> <<>>, next |-> 0, thrown |-> <<>>]

InitGuards ==
    /\ options = mergeOptions(<<>>)
    /\ router = constructor(options)
    /\ console = <<>>
    /\ addRouteLog = <<>>
    /\ registrations = 0
    /\ requests = [r \in Connections |-> IdleRequest]
    /\ container = LoadedContainer
    /\ resolutions = <<>>
    /\ \/ \E guard \in GuardsGiven, header \in AuthorizationHeaders :
            lastOp = GuardRun("UseGuards", guard, <<>>,
                              [authorization |-> header, user |-> JsUndefined])
       \/ \E roles \in RolesGiven, user \in ContextUsers :
            lastOp = GuardRun("Roles", [kind |-> "", of |-> ""], roles,
                              [authorization |-> <<>>, user |-> user])

\* the middleware of UseGuards calls canActivate and awaits it
GuardAwaits ==
    /\ lastOp.op = "guard" /\ lastOp.built = "UseGuards" /\ lastOp.pc = "called"
    /\ LET activation == canActivate(lastOp.guard, lastOp.ctx)
       IN  lastOp' = [lastOp EXCEPT !.pc = "awaiting", !.ctx = activation.ctx,
                                    !.activation = <<[ok |-> activation.ok,
                                                      v |-> activation.v]>>]
    /\ UNCHANGED <<router, console, addRouteLog, registrations, options, requests,
                   container, resolutions>>

\* it goes on after the await: throws, or returns next()
GuardResumes ==
    /\ lastOp.op = "guard" /\ lastOp.built = "UseGuards" /\ lastOp.pc = "awaiting"
    /\ lastOp' = guardResumes(lastOp)
    /\ UNCHANGED <<router, console, addRouteLog, registrations, options, requests,
                   container, resolutions>>

\* the middleware of Roles runs: it has no await before next()
RoleMiddleware ==
    /\ lastOp.op = "guard" /\ lastOp.built = "Roles" /\ lastOp.pc = "called"
    /\ lastOp' = roleMiddleware(lastOp)
    /\ UNCHANGED <<router, console, addRouteLog, registrations, options, requests,
                   container, resolutions>>

NextGuards == GuardAwaits \/ GuardResumes \/ RoleMiddleware

SpecGuards == InitGuards /\ [][NextGuards]_vars

(***************************************************************************)
(* Properties of the container                                             *)
(***************************************************************************)
\* call a is in progress on the call stack when call p is made: p is made by
\* the createInstance of a or of a call a itself caused
Requires(a, p) == Len(a) < Len(p) /\ SubSeq(p, 1, Len(a)) = a

\* C14: resolve terminates on cyclic dependency graphs. When resolving X
\* requires, directly or through constructor dependencies, resolving X again
\* while the first call is in progress, the inner call fails at once with
\* "Circular dependency detected for: X" and resolves nothing further, the
\* first call is never fulfilled and fails with the circular-dependency error,
\* and the nesting never reaches the limit of the call stack.
C14_CircularResolutionFails ==
    /\ \A p \in DOMAIN resolutions :
        /\ Len(p) <= MaxDepth
        /\ resolutions[p].value # RangeError
    /\ \A a \in DOMAIN resolutions, p \in DOMAIN resolutions :
        (Requires(a, p) /\ resolutions[a].identifier = resolutions[p].identifier) =>
            LET X == resolutions[p].identifier
            IN  /\ resolutions[p].phase = "rejected"
                /\ resolutions[p].value = CircularDependency(X)
                /\ dependenciesOf(resolutions, p) = {}
                /\ resolutions[a].phase # "fulfilled"
                /\ resolutions[a].phase = "rejected" =>
                        resolutions[a].value = CircularDependency(X)
                /\ X \notin DOMAIN container.singletons

C14_Witness ==
    /\ <<1, 1, 1, 1>> \in DOMAIN resolutions
    /\ resolutions[<<1>>].identifier = "CheckoutService"
    /\ resolutions[<<1, 1>>].identifier = "OrderService"
    /\ resolutions[<<1, 1, 1>>].identifier = "PaymentService"
    /\ resolutions[<<1, 1, 1, 1>>].identifier = "OrderService"
    /\ resolutions[<<1, 1, 1, 1>>].phase = "rejected"
    /\ resolutions[<<1>>].phase = "rejected"
    /\ resolutions[<<1>>].value = CircularDependency("OrderService")
    /\ container.resolving = {}

\* the identifiers createInstance resolves for the constructor of target
DependsOn(target) ==
    IF IsClass(target)
    THEN { IF k \in DOMAIN injections(target) THEN injections(target)[k]
           ELSE paramTypes(target)[k] : k \in 1..Len(paramTypes(target)) }
    ELSE {}

RECURSIVE Closure(_, _)
\* everything resolving the identifiers of frontier asks for, those of seen included
Closure(seen, frontier) ==
    IF frontier \subseteq seen THEN seen
    ELSE Closure(seen \cup frontier, UNION { DependsOn(x) : x \in frontier })

\* the dependency graph below identifier holds a cycle
Cyclic(identifier) ==
    \E x \in Closure({}, {identifier}) : x \in Closure({}, DependsOn(x))

\* the error of a resolve call is a circular-dependency error
IsCircularError(a) ==
    a.phase = "rejected" /\ \E x \in ServiceClasses \cup ControllerClasses \cup Tokens :
                                a.value = CircularDependency(x)

\* C21: the circular-dependency error is raised only for a real cycle. A
\* resolve call for an identifier whose dependency graph is acyclic never
\* fails with "Circular dependency detected", also when two constructor
\* dependencies share a transitive dependency that is not cached yet and when
\* two callers resolve the same identifier at the same time.
C21_CircularOnlyForCycles ==
    \A p \in DOMAIN resolutions :
        IsCircularError(resolutions[p]) => Cyclic(resolutions[p].identifier)

(***************************************************************************)
(* Properties of the server                                                *)
(***************************************************************************)
\* the request reached the route lookup of handleRequest
Routed(q) ==
    /\ ~(q.method = "OPTIONS" /\ options.cors)
    /\ ~(options.openapi.enabled /\
         q.path \in {options.openapi.path, options.openapi.path \o Slash \o openapiJson})

\* the methods other than the request's under which the request path resolves
OtherMethods(q) == {m \in Methods \ {q.method} : match(router, m, q.path) # null}

\* C4: a request whose path resolves to no route for its method is answered 405
\* when the path is registered under some other of the seven methods, and 404
\* only when it is registered under none.
C4_MethodNotAllowedOrNotFound ==
    \A r \in DOMAIN requests :
        LET q == requests[r]
        IN  (q.pc = "done" /\ q.frames = <<>> /\ Routed(q)) =>
                /\ OtherMethods(q) # {} => q.response[1].status = 405
                /\ q.response[1].status = 404 => OtherMethods(q) = {}

\* the runs of the chain of q, outermost first
Runs(q) == DOMAIN q.frames
\* no middleware has left the protocol: none invoked next() twice, none
\* answered or threw instead of invoking it
KeepsProtocol(q) ==
    \A i \in Runs(q) : q.frames[i].calls <= 1 /\ q.frames[i].act = ""

\* C5: in a chain whose middleware each invoke next() once, the runs start in
\* the order 0, 1, ..., n-1, handler, each once; while one runs, those before
\* it wait for it; and the served request has started them all -- whatever the
\* other connections are doing.
C5_ChainOrder ==
    \A r \in DOMAIN requests :
        LET q == requests[r]
            n == Len(q.match.route.middlewares)
        IN  (Runs(q) # {} /\ KeepsProtocol(q)) =>
                /\ q.started = [k \in 1..Len(q.started) |-> k - 1]
                /\ \A i \in Runs(q), j \in Runs(q) :
                      (i < j /\ q.frames[j].phase \notin {"none", "finished"}) =>
                          q.frames[i].phase = "waiting"
                /\ Len(q.handlerCalls) <= 1
                /\ q.pc = "done" =>
                      /\ q.started = [k \in 1..(n + 1) |-> k - 1]
                      /\ q.thrown = <<>> => /\ Len(q.handlerCalls) = 1
                                            /\ q.response[1].status = 201

\* two requests are in the middle of their chains, and one has been served in order
C5_Witness ==
    \E r \in DOMAIN requests, c \in DOMAIN requests :
        /\ r # c
        /\ requests[r].pc = "done" /\ KeepsProtocol(requests[r])
        /\ Len(requests[r].started) = 4
        /\ requests[c].pc = "chain" /\ requests[c].index >= 1

\* the message of the error in the body of an error response
messageOf(response) == response.body.of.v.error.message

\* C6: a middleware's second next() -- after the first returned or while it
\* is pending -- is rejected with "next() called multiple times": no run is
\* started a second time, the handler runs at most once, the caller sees that
\* error, and the request is answered with it.
C6_SecondNextFails ==
    \A r \in DOMAIN requests :
        LET q == requests[r]
        IN  Runs(q) # {} =>
                /\ \A k \in 1..Len(q.started), l \in 1..Len(q.started) :
                      k # l => q.started[k] # q.started[l]
                /\ Len(q.handlerCalls) <= 1
                /\ \A i \in Runs(q) :
                      q.frames[i].calls >= 2 =>
                          /\ q.frames[i].phase \in {"resumed", "finished"}
                          /\ q.frames[i].phase = "resumed" =>
                                q.frames[i].res = Rejected(ProtocolError)
                          /\ q.pc = "done" =>
                                /\ q.response[1].status = 500
                                /\ ~options.production =>
                                      messageOf(q.response[1]) = "next() called multiple times"

\* a middleware invoked next() again while its first call was pending: the
\* request is answered 500 and the runs after it are still under way, once
C6_Witness ==
    \E r \in DOMAIN requests :
        LET q == requests[r]
        IN  /\ q.pc = "done"
            /\ q.response[1].status = 500
            /\ \E i \in Runs(q) :
                  /\ q.frames[i].calls = 2
                  /\ i + 1 \in Runs(q)
                  /\ q.frames[i + 1].phase \in {"active", "waiting"}

\* the parameters of the matched handler whose schema rejects the value read
RejectedParameters(q) ==
    LET metadata == ParamMetadataOf(q.match.route.controller, q.match.route.handler)
    IN  {k \in 1..Len(metadata) :
            /\ metadata[k].schema # ""
            /\ parameterValue(q.ctx, metadata[k]) # JsUndefined
            /\ safeParseIssues(metadata[k].schema, parameterValue(q.ctx, metadata[k])) # <<>>}

\* the issues the schema of the handler's first rejected parameter reports
IssuesOf(q) ==
    LET metadata == ParamMetadataOf(q.match.route.controller, q.match.route.handler)
        k == CHOOSE j \in RejectedParameters(q) :
                \A other \in RejectedParameters(q) : metadata[j].index <= metadata[other].index
    IN  safeParseIssues(metadata[k].schema, parameterValue(q.ctx, metadata[k]))

\* C7: when a parameter's value is present and its schema rejects it, the
\* handler is never invoked; resolution throws the schema's error; and, the
\* middleware keeping to the next() protocol, the request is answered 422
\* VALIDATION_ERROR with one entry per issue, in order, naming the issue's path.
C7_ValidationFailure ==
    \A r \in DOMAIN requests :
        LET q == requests[r]
            n == Len(q.match.route.middlewares)
        IN  (q.pc \in {"chain", "done"} /\ Runs(q) # {} /\ RejectedParameters(q) # {}) =>
                /\ q.handlerCalls = <<>>
                /\ q.returned = <<>>
                /\ q.frames[n].phase = "finished" => q.thrown = <<ZodError(IssuesOf(q))>>
                /\ (q.pc = "done" /\ q.frames[n].phase = "finished" /\ KeepsProtocol(q)) =>
                      LET error == q.response[1].body.of.v.error
                      IN  /\ q.response[1].status = 422
                          /\ error.status = 422
                          /\ error.code = "VALIDATION_ERROR"
                          /\ Len(error.errors) = Len(IssuesOf(q))
                          /\ \A k \in 1..Len(error.errors) :
                                /\ error.errors[k].field = joinDot(IssuesOf(q)[k].path)
                                /\ error.errors[k].message = IssuesOf(q)[k].message

\* a body with two invalid fields was posted: 422 with two entries, no handler call
C7_Witness ==
    \E r \in DOMAIN requests :
        LET q == requests[r]
        IN  /\ q.pc = "done" /\ Runs(q) # {}
            /\ RejectedParameters(q) # {}
            /\ Len(IssuesOf(q)) = 2
            /\ q.response[1].status = 422
            /\ Len(q.response[1].body.of.v.error.errors) = 2
            /\ q.handlerCalls = <<>>

MethodMiddlewares(target, handler) ==
    IF target = "UserController" /\ handler = "profile" THEN <<"AuthGuard">> ELSE <<>>

\* the middleware of the runs of q started so far
StartedMiddlewares(q) ==
    {middlewareOf(q, q.started[k]) :
        k \in {j \in 1..Len(q.started) : IsMiddleware(q, q.started[j])}}

\* C11: for every request routed to a handler whose method carries
\* @UseGuards / @Use / @Roles middleware, that middleware is in the request's
\* chain and has run before the handler is invoked.
C11_MethodGuardRuns ==
    \A r \in DOMAIN requests :
        LET q == requests[r]
        IN  (Runs(q) # {} /\ q.handlerCalls # <<>>) =>
                \A k \in 1..Len(MethodMiddlewares(q.match.route.controller,
                                                  q.match.route.handler)) :
                    MethodMiddlewares(q.match.route.controller,
                                      q.match.route.handler)[k] \in StartedMiddlewares(q)

\* the parameters of kind custom of the handler the request is routed to
CustomParameters(q) ==
    LET metadata == ParamMetadataOf(q.match.route.controller, q.match.route.handler)
    IN  {k \in 1..Len(metadata) : metadata[k].type = "custom"}

\* C12: once parameter resolution of a request is over, the handler has been
\* invoked, and its argument at the position of a custom binding (@Req) is the
\* transform applied to the request's context: ctx.req, the request.
C12_CustomBindingGetsContext ==
    \A r \in DOMAIN requests :
        LET q == requests[r]
            n == Len(q.match.route.middlewares)
            metadata == ParamMetadataOf(q.match.route.controller, q.match.route.handler)
        IN  (Runs(q) # {} /\ q.frames[n].phase = "finished") =>
                \A k \in CustomParameters(q) :
                    /\ q.handlerCalls # <<>>
                    /\ q.handlerCalls[1][metadata[k].index] = JsRequest(q.ctx.req)

(***************************************************************************)
(* Short-circuit                                                           *)
(***************************************************************************)
\* the middleware of the request that answered without invoking next()
ShortCircuited(q) ==
    { i \in Runs(q) : q.frames[i].act = "returned" /\ q.frames[i].calls = 0 }

\* C18: short-circuit. When middleware k returns a response without invoking
\* its continuation, no middleware after k and not the terminal handler is
\* ever started for that request, and the response k returned is what
\* middleware k - 1 receives from the next() that started k (for k = 0: what the
\* caller of the chain receives, which answers the request with it). A later,
\* second next() of k - 1 is rejected and starts nothing.
C18_ShortCircuit ==
    \A r \in DOMAIN requests :
        LET q == requests[r]
        IN  \A k \in ShortCircuited(q) :
                /\ \A j \in Runs(q) : j > k => q.frames[j].phase = "none"
                /\ \A s \in 1..Len(q.started) : q.started[s] <= k
                /\ q.handlerCalls = <<>>
                /\ q.frames[k].phase = "finished"
                /\ q.frames[k].out # <<>> /\ q.frames[k].out[1].ok
                /\ q.frames[k].out[1].v.body = JSONstringify(JsObject([cached |-> TRUE]))
                /\ k > 0 => /\ q.frames[k - 1].phase \in {"resumed", "finished"}
                            /\ q.frames[k - 1].calls = 1 =>
                                    q.frames[k - 1].res = q.frames[k].out[1]
                /\ k = 0 => /\ q.pc = "done"
                            /\ q.response = <<q.frames[k].out[1].v>>

C18_Witness ==
    \E r \in DOMAIN requests :
        LET q == requests[r]
        IN  /\ q.pc = "done"
            /\ Runs(q) # {}
            /\ q.method = "GET"
            /\ q.match.route.handler = "getUser"
            /\ \E k \in ShortCircuited(q) :
                /\ k > 0
                /\ middlewareOf(q, k) = "audit"
                /\ q.started = [s \in 1..(k + 1) |-> s - 1]
                /\ q.frames[k - 1].res = q.frames[k].out[1]
                /\ q.frames[k + 1].phase = "none"
            /\ q.response[1].body = JSONstringify(JsObject([cached |-> TRUE]))

(***************************************************************************)
(* Failure semantics                                                       *)
(***************************************************************************)
\* the request carries a JSON body that req.json() cannot parse
Malformed(q) ==
    /\ q.method \notin {"GET", "HEAD", "OPTIONS"}
    /\ q.body.contentType = "application/json"
    /\ JSONparse(q.body.payload) = <<>>

\* the step of the chain that raised the exception: the middleware that threw,
\* or the terminal handler
Thrower(q) ==
    LET n == Len(q.match.route.middlewares)
    IN  IF \E i \in Runs(q) : q.frames[i].act = "threw"
        THEN CHOOSE i \in Runs(q) : q.frames[i].act = "threw"
        ELSE n

\* the status handleRequest answers an exception with
envelopeStatus(error) ==
    IF error.t = "HttpException" THEN error.status
    ELSE IF "issues" \in DOMAIN error THEN 422
    ELSE 500

\* every middleware run of the request invoked next() at most once
SingleCalls(q) == \A i \in Runs(q) : q.frames[i].calls <= 1

\* an exception raised by a middleware, by controller resolution, by parameter
\* resolution or by the handler: nothing is started after the step that raised
\* it, every step awaiting it is rejected with it, and handleRequest answers
\* with the one envelope of that exception
Propagates(r) ==
    LET q == requests[r]
        n == Len(q.match.route.middlewares)
        k == Thrower(q)
        error == q.thrown[1]
    IN  /\ Len(q.thrown) = 1
        /\ \A j \in Runs(q) : j > k => q.frames[j].phase = "none"
        /\ \A s \in 1..Len(q.started) : q.started[s] <= k
        /\ q.frames[k].phase = "finished"
        /\ q.frames[k].out = <<Rejected(error)>>
        /\ Len(q.handlerCalls) <= 1
        /\ q.returned = <<>> /\ q.created = <<>>
        /\ k < n => q.handlerCalls = <<>>
        /\ (<<r>> \in DOMAIN resolutions /\ resolutions[<<r>>].phase = "rejected") =>
                q.handlerCalls = <<>> /\ error = resolutions[<<r>>].value
        /\ RejectedParameters(q) # {} => q.handlerCalls = <<>>
        /\ SingleCalls(q) =>
            /\ \A i \in Runs(q) :
                  (i < k /\ q.frames[i].phase = "finished")
                      => q.frames[i].out = <<Rejected(error)>>
            /\ q.pc = "done" =>
                  /\ q.response = <<handleException(error, options.production)>>
                  /\ q.response[1].status = envelopeStatus(error)
                  /\ q.response[1].body.of.v.success = FALSE
                  /\ q.response[1].body.of.v.error.status = envelopeStatus(error)

\* C13 (as claimed): exceptions of body parsing, middleware, controller
\* resolution, parameter resolution and the handler all reach handleRequest
\* with nothing started after the step that raised them and are answered with
\* one error envelope; for body parsing: the chain is not started and the
\* answer is the 500 envelope.
C13_EveryFaultReachesHandleRequest ==
    \A r \in DOMAIN requests :
        LET q == requests[r]
        IN  Runs(q) # {} =>
                /\ q.thrown # <<>> => Propagates(r)
                /\ Malformed(q) =>
                      /\ q.started = <<>>
                      /\ q.pc = "done" => q.response[1].status = 500

\* C13 (amended): an exception raised by a middleware, by controller
\* resolution, by parameter resolution or by the handler propagates without
\* chain-local recovery to handleRequest, which answers with exactly one error
\* envelope: the exception's own status for an HttpException, 422 for a schema
\* validation error, 500 otherwise. An exception raised while the body is
\* parsed never leaves parseBody: the body is left undefined and the chain is
\* started as for any other request.
C13_FaultsPropagate ==
    \A r \in DOMAIN requests :
        LET q == requests[r]
        IN  Runs(q) # {} =>
                /\ q.thrown # <<>> => Propagates(r)
                /\ Malformed(q) =>
                      /\ q.ctx.body = JsUndefined
                      /\ q.started # <<>> /\ q.started[1] = 0

C13_Witness ==
    \E r \in DOMAIN requests :
        LET q == requests[r]
        IN  /\ q.pc = "done" /\ Runs(q) # {}
            /\ q.match.route.controller = "FileController"
            /\ q.thrown = <<NoProviderFound("STORAGE")>>
            /\ Thrower(q) = Len(q.match.route.middlewares)
            /\ Thrower(q) > 0
            /\ q.frames[0].out = <<Rejected(NoProviderFound("STORAGE"))>>
            /\ q.handlerCalls = <<>>
            /\ q.response[1].status = 500

(***************************************************************************)
(* Context isolation                                                       *)
(***************************************************************************)
\* the context createContext made for the request, before any write
freshContext(q) == createContext(Request(q.method, q.path, q.body), q.match.params)

\* C17: request contexts are isolated. Exactly one context is created for a
\* dispatched request (none for a request answered before dispatch), and in
\* every interleaving the context of a request shows its own request, its own
\* path parameters and exactly the writes made during that request, in their
\* order: body, state store, user slot, status override and pending cookies
\* never show a write made during another request.
C17_ContextIsolation ==
    \A r \in DOMAIN requests :
        LET q == requests[r]
        IN  /\ q.contexts = IF q.match = null THEN 0 ELSE 1
            /\ q.contexts > 0 =>
                /\ q.ctx = applyWrites(freshContext(q), q.writes)
                /\ q.ctx.req = Request(q.method, q.path, q.body)
                /\ q.ctx.params = q.match.params
                /\ q.ctx.body \in {JsUndefined, parseBody(q.method, q.body)}
                /\ \A key \in DOMAIN q.ctx.state : q.ctx.state[key] = r
                /\ q.ctx.user \in {JsUndefined, JsObject([sub |-> r])}
                /\ \A name \in DOMAIN q.ctx.cookies :
                        q.ctx.cookies[name] = "s" \o ToString(r)
                /\ q.ctx.statusCode # DefaultStatus =>
                        \E k \in 1..Len(q.writes) :
                            /\ q.writes[k].field = "statusCode"
                            /\ q.writes[k].value = q.ctx.statusCode

C17_Witness ==
    /\ requests[1].pc = "chain" /\ requests[2].pc = "chain"
    /\ requests[1].ctx.state = ("requestId" :> 1)
    /\ requests[2].ctx.state = ("requestId" :> 2)
    /\ requests[1].ctx.user = JsObject([sub |-> 1])
    /\ requests[2].ctx.user = JsObject([sub |-> 2])
    /\ requests[1].ctx.cookies = ("sid" :> "s1")
    /\ requests[2].ctx.cookies = ("sid" :> "s2")
    /\ requests[1].ctx.statusCode = 201
    /\ requests[2].ctx.statusCode = DefaultStatus
    /\ requests[1].ctx.body = GoodUser
    /\ requests[2].contexts = 1

(***************************************************************************)
(* Parameter resolution                                                    *)
(***************************************************************************)
\* the schema of binding p is applied to the extracted value x
Validates(p, x) == p.schema # "" /\ x # JsUndefined

\* the value binding p hands to its transform, or to the handler without one
ValidatedValue(p, x) == IF Validates(p, x) THEN safeParseData(p.schema, x) ELSE x

\* binding p stops resolveParameters for the context ctx
FailsFor(ctx, p) ==
    LET x == parameterValue(ctx, p)
    IN  \/ Validates(p, x) /\ safeParseIssues(p.schema, x) # <<>>
        \/ /\ ~(Validates(p, x) /\ safeParseIssues(p.schema, x) # <<>>)
           /\ p.transform # ""
           /\ ~transform(p.transform, ValidatedValue(p, x)).ok

\* C22: in resolveParameters a binding's schema is applied if and only if the
\* extracted value is not undefined. An absent value, such as the body of a
\* request whose body could not be parsed, is passed on without validation and
\* the handler is still invoked; a transform is applied after validation and
\* to the validated value; argument positions no binding names stay unset.
C22_SchemaOnlyForPresentValues ==
    lastOp.op = "resolveParameters" =>
        LET ctx == lastOp.ctx
            bound == { lastOp.metadata[k] : k \in DOMAIN lastOp.metadata }
        IN  /\ lastOp.result.ok <=> \A p \in bound : ~FailsFor(ctx, p)
            /\ lastOp.result.ok =>
                /\ DOMAIN lastOp.result.v = { p.index : p \in bound }
                /\ \A p \in bound :
                    LET x == parameterValue(ctx, p)
                        v == ValidatedValue(p, x)
                    IN  lastOp.result.v[p.index] =
                            IF p.transform # "" THEN transform(p.transform, v).v ELSE v
                /\ lastOp.handlerCalls = <<lastOp.result.v>>
            /\ ~lastOp.result.ok =>
                /\ lastOp.handlerCalls = <<>>
                /\ \E p \in bound :
                    /\ FailsFor(ctx, p)
                    /\ \A o \in bound : o.index < p.index => ~FailsFor(ctx, o)
                    /\ LET x == parameterValue(ctx, p)
                       IN  lastOp.result.v =
                             IF Validates(p, x) /\ safeParseIssues(p.schema, x) # <<>>
                             THEN ZodError(safeParseIssues(p.schema, x))
                             ELSE transform(p.transform, ValidatedValue(p, x)).v

\* a POST whose JSON body could not be parsed reaches a handler that binds its
\* second parameter with Body(CreateUserSchema): the handler is called with
\* undefined there and nothing in the first position
C22_Witness ==
    /\ lastOp.op = "resolveParameters"
    /\ lastOp.method = "POST"
    /\ lastOp.body = [contentType |-> "application/json", payload |-> PlainText("{")]
    /\ lastOp.metadata = << ParamMetadata("body", 1, <<>>, "CreateUserSchema", "") >>
    /\ lastOp.ctx.body = JsUndefined
    /\ lastOp.handlerCalls = << (1 :> JsUndefined) >>

(***************************************************************************)
(* The protocol violation as an error response                             *)
(***************************************************************************)
\* the errors middleware and handlers of the application raise, and the error
\* of a failed validation
OrdinaryErrors ==
    ThrownErrors \cup
        { UnauthorizedException("Unauthorized"),
          ZodError(safeParseIssues("CreateUserSchema", ShortName)) }

\* dispatch(0) of the request rejected with the protocol error: the violation
\* reached handleRequest
ViolationReached(q) ==
    /\ Runs(q) # {}
    /\ q.pc = "done"
    /\ q.frames[0].out = <<Rejected(ProtocolError)>>

\* the two error responses can be told apart by status, code or message
ToldApart(a, b) ==
    \/ a.status # b.status
    \/ a.body.of.v.error.code # b.body.of.v.error.code
    \/ a.body.of.v.error.message # b.body.of.v.error.message

IsUnauthorized(e) ==
    e.t = "HttpException" /\ e.name = "UnauthorizedException" /\ e.status = 401

\* the bearer token of the header is one AstraAuth.verify accepts
PresentsValidToken(ctx) ==
    ctx.authorization # <<>> /\ ctx.authorization = <<"Bearer", "valid">>

\* the guard admits the request it is asked about
Admits(guard, before) ==
    \/ guard.of = "OpenGuard"
    \/ guard.of = "AuthGuard" /\ guard.kind = "instance" /\ PresentsValidToken(before)

\* C24: every guard-style middleware either lets the chain proceed or denies
\* with an error. The middleware UseGuards builds for a Guard class or instance
\* invokes its continuation exactly once when canActivate yields true and
\* otherwise throws UnauthorizedException (401) without invoking it; the
\* middleware Roles builds throws 401 when the context has no user, 403 when
\* the user has none of the required roles, and otherwise invokes its
\* continuation exactly once.
C24_GuardsProceedOrDeny ==
    lastOp.op = "guard" =>
        /\ lastOp.next <= 1
        /\ lastOp.pc # "done" => lastOp.next = 0 /\ lastOp.thrown = <<>>
        /\ (lastOp.pc = "done" /\ lastOp.built = "UseGuards") =>
            LET yields == lastOp.activation[1].ok /\ lastOp.activation[1].v
            IN  /\ yields <=> Admits(lastOp.guard,
                                     [lastOp.ctx EXCEPT !.user = JsUndefined])
                /\ yields => lastOp.next = 1 /\ lastOp.thrown = <<>>
                /\ ~yields =>
                    /\ lastOp.next = 0
                    /\ Len(lastOp.thrown) = 1
                    /\ IsUnauthorized(lastOp.thrown[1])
        /\ (lastOp.pc = "done" /\ lastOp.built = "Roles") =>
            LET user == lastOp.ctx.user
                required == { lastOp.roles[k] : k \in DOMAIN lastOp.roles }
                held == IF user.t = "object" /\ "roles" \in DOMAIN user.v
                        THEN { user.v.roles[k] : k \in DOMAIN user.v.roles } ELSE {}
            IN  IF user.t \in {"undefined", "null"}
                THEN /\ lastOp.next = 0
                     /\ Len(lastOp.thrown) = 1
                     /\ IsUnauthorized(lastOp.thrown[1])
                ELSE IF required \cap held = {}
                THEN /\ lastOp.next = 0
                     /\ Len(lastOp.thrown) = 1
                     /\ lastOp.thrown[1].t = "HttpException"
                     /\ lastOp.thrown[1].status = 403
                ELSE lastOp.next = 1 /\ lastOp.thrown = <<>>

\* an AuthGuard instance given to UseGuards meets a valid bearer token: the
\* payload becomes the user of the context and the continuation is invoked once
C24_Witness ==
    /\ lastOp.op = "guard"
    /\ lastOp.pc = "done"
    /\ lastOp.built = "UseGuards"
    /\ lastOp.guard = [kind |-> "instance", of |-> "AuthGuard"]
    /\ lastOp.ctx.authorization = <<"Bearer", "valid">>
    /\ lastOp.ctx.user.t = "object"
    /\ lastOp.next = 1
    /\ lastOp.thrown = <<>>

(***************************************************************************)
(* The shape of the trie                                                   *)
(***************************************************************************)
\* the nodes on the walk from the root to node, both included
WalkTo(node) == { SubSeq(node, 1, k) : k \in 0..Len(node) }

\* the fields of every node agree with the nodes below it, and a node has at
\* most one parameter child and at most one wildcard child
WellFormed(root) ==
    \A node \in DOMAIN root :
        /\ Len(root[node].paramChild) <= 1
        /\ root[node].paramChild # <<>> <=> Append(node, ParamEdge) \in DOMAIN root
        /\ root[node].wildcardChild <=> Append(node, WildcardEdge) \in DOMAIN root
        /\ \A child \in DOMAIN root :
              (Len(child) = Len(node) + 1 /\ SubSeq(child, 1, Len(node)) = node
                    /\ child[Len(child)].kind = "static")
                => child[Len(child)].segment \in root[node].children
        /\ \A segment \in root[node].children :
              Append(node, StaticEdge(segment)) \in DOMAIN root
        /\ node # RootNode => SubSeq(node, 1, Len(node) - 1) \in DOMAIN root

\* the addRoute calls of the step
CallsOfStep ==
    { addRouteLog'[k] : k \in (Len(addRouteLog) + 1)..Len(addRouteLog') }

\* a step replaces no node and creates only the nodes that were missing on
\* the walks of the paths it registers
Idempotent ==
    /\ \A node \in DOMAIN router.root :
        /\ node \in DOMAIN router'.root
        /\ router.root[node].children \subseteq router'.root[node].children
        /\ router.root[node].paramChild # <<>> =>
                router'.root[node].paramChild = router.root[node].paramChild
        /\ router.root[node].wildcardChild => router'.root[node].wildcardChild
        /\ DOMAIN router.root[node].handlers \subseteq DOMAIN router'.root[node].handlers
    /\ DOMAIN router'.root =
            DOMAIN router.root \cup
                UNION { WalkTo(terminalNode(addRouteSegments(a.path))) : a \in CallsOfStep }

\* C25: after any sequence of route registrations every trie node has at most
\* one parameter child and at most one wildcard child, and registration is
\* idempotent per segment kind: registering a path whose segments already
\* exist along the walk creates no new node and replaces no existing node (a
\* second parameter segment at the same node reuses the existing child).
C25_OneChildPerKind ==
    [][router'.root = router.root \/ (Idempotent /\ WellFormed(router'.root))]_vars

\* /users/:id and then /users/:uid/posts were registered: the node of /users
\* has the one parameter child the first registration made, with a node for
\* posts below it
C25_Witness ==
    /\ Len(addRouteLog) >= 4
    /\ addRouteLog[1].controller = "UserController"
    /\ addRouteLog[4].controller = "AccountController"
    /\ router.root[<<StaticEdge(users)>>].paramChild = <<Tail(colonId)>>
    /\ <<StaticEdge(users), ParamEdge, StaticEdge(posts)>> \in DOMAIN router.root

(***************************************************************************)
(* Registration order                                                      *)
(***************************************************************************)
MaxPermuted == 4       \* the longest list of routes tried in every order

\* the registered routes occupy pairwise distinct (method, terminal node) slots
DistinctSlots ==
    \A i \in 1..Len(addRouteLog), j \in 1..Len(addRouteLog) : i # j => ~SameSlot(i, j)

RECURSIVE replay(_, _)
\* the router after the addRoute calls of log, made on rt in that order
replay(rt, log) ==
    IF log = <<>> THEN rt
    ELSE LET a == Head(log)
         IN  replay(addRoute(rt, a.method, a.path, a.controller, a.handler,
                             a.middlewares, a.definition),
                    Tail(log))

\* the orders of n registrations
Orders(n) ==
    { f \in [1..n -> 1..n] : \A i \in 1..n, j \in 1..n : i # j => f[i] # f[j] }

\* the route of a match result, if any
RouteOf(result) == IF result = null THEN <<>> ELSE <<result.route>>

\* the trie the set of registered routes determines, whatever their order:
\* the nodes on the walks of the paths, each slot holding its one route, and
\* one name for every parameter
TrieOfRoutes ==
    LET calls == { addRouteLog[k] : k \in 1..Len(addRouteLog) }
        endOf(a) == terminalNode(addRouteSegments(a.path))
        nodes == {RootNode} \cup UNION { WalkTo(endOf(a)) : a \in calls }
        below(node, kind) ==
            { child \in nodes : /\ Len(child) = Len(node) + 1
                                /\ SubSeq(child, 1, Len(node)) = node
                                /\ child[Len(child)].kind = kind }
    IN  [node \in nodes |->
            [children |-> { child[Len(child)].segment : child \in below(node, "static") },
             paramChild |-> IF below(node, "param") # {} THEN <<"p">> ELSE <<>>,
             wildcardChild |-> below(node, "wildcard") # {},
             handlers |->
                [m \in { a.method : a \in { c \in calls : endOf(c) = node } } |->
                    LET a == CHOOSE c \in calls : endOf(c) = node /\ c.method = m
                    IN  compiledRoute(NewRouter, a.controller, a.handler, a.middlewares,
                                      a.definition)]]]

\* the trie with the names of its parameters left out
Unnamed(root) ==
    [node \in DOMAIN root |->
        [root[node] EXCEPT !.paramChild = IF @ = <<>> THEN <<>> ELSE <<"p">>]]

\* C26: registration order does not affect matching. For routes that occupy
\* pairwise distinct (method, terminal node) slots, and for every request,
\* Router.match returns the same route for every order in which the routes
\* are registered: the trie is the one the set of routes determines, up to
\* the names of parameters, and so is the route of every match.
C26_OrderIndependent ==
    (lastOp.op = "match" /\ DistinctSlots) =>
        /\ Unnamed(router.root) = TrieOfRoutes
        /\ RouteOf(lastOp.result) =
                RouteOf(match([router EXCEPT !.root = TrieOfRoutes],
                              lastOp.method, lastOp.path))
        /\ Len(addRouteLog) <= MaxPermuted =>
              \A f \in Orders(Len(addRouteLog)) :
                  RouteOf(match(replay(NewRouter,
                                       [k \in 1..Len(addRouteLog) |-> addRouteLog[f[k]]]),
                                lastOp.method, lastOp.path))
                    = RouteOf(lastOp.result)

\* /users/:id was registered before /users/profile and a request for
\* /users/profile is matched to the profile route, as in every other order
C26_Witness ==
    /\ lastOp.op = "match"
    /\ DistinctSlots
    /\ Len(addRouteLog) \in 3..MaxPermuted
    /\ addRouteLog[1].handler = "getUser"
    /\ addRouteLog[2].handler = "profile"
    /\ lastOp.method = "GET"
    /\ lastOp.path = Slash \o users \o Slash \o profile
    /\ lastOp.result # null
    /\ lastOp.result.route.handler = "profile"

(***************************************************************************)
(* Singletons                                                              *)
(***************************************************************************)
\* the identifiers registered as singleton classes or singleton factories
SingletonProviders ==
    { identifier \in DOMAIN container.providers :
        /\ container.providers[identifier].singleton
        /\ container.providers[identifier].kind \in {"useClass", "useFactory"} }

\* C27: for a singleton provider (class or factory) that is not registered
\* again, across any sequence and interleaving of Container.resolve calls at
\* most one instance is ever created and cached, and every resolve call that
\* succeeds returns that same instance.
C27_OneInstancePerSingleton ==
    \A identifier \in SingletonProviders :
        /\ identifier \in DOMAIN container.constructed =>
                container.constructed[identifier] = 1
        /\ identifier \in DOMAIN container.singletons =>
                /\ identifier \in DOMAIN container.constructed
                /\ container.singletons[identifier] = Instance(identifier, 1)
        /\ \A p \in DOMAIN resolutions :
              (resolutions[p].identifier = identifier /\ resolutions[p].phase = "fulfilled")
                => /\ identifier \in DOMAIN container.singletons
                   /\ resolutions[p].value = container.singletons[identifier]

\* two callers resolved ReportService one after the other: the Database the
\* second caller's AuditService is given is the one made for the first
\* caller's MailService
C27_Witness ==
    /\ <<1, 1, 1>> \in DOMAIN resolutions /\ <<2, 2, 1>> \in DOMAIN resolutions
    /\ resolutions[<<1, 1, 1>>].identifier = "Database"
    /\ resolutions[<<2, 2, 1>>].identifier = "Database"
    /\ resolutions[<<1, 1, 1>>].phase = "fulfilled"
    /\ resolutions[<<2, 2, 1>>].phase = "fulfilled"
    /\ resolutions[<<1, 1, 1>>].value = resolutions[<<2, 2, 1>>].value
    /\ container.constructed["Database"] = 1
    /\ resolutions[<<2>>].phase = "fulfilled"

(***************************************************************************)
(* Compiled routes and later global middleware                             *)
(***************************************************************************)
\* the handler slots the addRoute calls of the step store into
SlotsOfStep ==
    { <<terminalNode(addRouteSegments(a.path)), a.method>> : a \in CallsOfStep }

\* C28: a CompiledRoute's middleware list is fixed at registration.
\* Router.use(mw) called after registerController(C) leaves the middleware
\* lists of all routes already registered unchanged, and mw is included only
\* in routes registered afterwards: a later registration changes none but the
\* slots it stores into, and those get the global list as it then stands.
C28_MiddlewareFixedAtRegistration ==
    [][ /\ router'.globalMiddlewares # router.globalMiddlewares =>
            /\ router'.root = router.root
            /\ \E mw \in GlobalMiddlewareChoices :
                    router'.globalMiddlewares = Append(router.globalMiddlewares, mw)
        /\ \A node \in DOMAIN router.root :
              \A method \in DOMAIN router.root[node].handlers :
                  <<node, method>> \notin SlotsOfStep =>
                      router'.root[node].handlers[method] = router.root[node].handlers[method]
        /\ \A slot \in SlotsOfStep :
              LET route == router'.root[slot[1]].handlers[slot[2]]
              IN  route.middlewares =
                      router.globalMiddlewares
                      \o ControllerMiddlewares(route.controller)
                      \o route.definition.middlewares
      ]_vars

\* UserController was registered, then use(cors), then AccountController:
\* the routes of UserController run without cors, those of AccountController
\* with it
C28_Witness ==
    /\ lastOp.op = "registerController"
    /\ lastOp.target = "AccountController"
    /\ router.globalMiddlewares = <<"cors">>
    /\ Len(addRouteLog) = 5
    /\ addRouteLog[1].controller = "UserController"
    /\ router.prefix = EmptyString
    /\ <<StaticEdge(users), ParamEdge, StaticEdge(posts)>> \in DOMAIN router.root
    /\ router.root[<<StaticEdge(users), ParamEdge>>].handlers["GET"].middlewares
            = <<"tenant", "throttle", "audit", "etag">>
    /\ router.root[<<StaticEdge(users), ParamEdge, StaticEdge(posts)>>]
            .handlers["GET"].middlewares = <<"cors">>

(***************************************************************************)
(* Precedence and the request method                                       *)
(***************************************************************************)
\* the node of the trie that spells the request path with static segments only
StaticNodeOf(path) ==
    [k \in 1..Len(matchSegments(path)) |-> StaticEdge(matchSegments(path)[k])]

\* the nodes with a parameter segment whose pattern covers the request path
ParamNodesOf(path) ==
    { node \in DOMAIN router.root :
        /\ Len(node) = Len(matchSegments(path))
        /\ \E k \in 1..Len(node) : node[k].kind = "param"
        /\ \A k \in 1..Len(node) :
              \/ node[k].kind = "param"
              \/ node[k] = StaticEdge(matchSegments(path)[k]) }

\* a static route exists for the path of q under other methods only, and a
\* parameter route covering the path exists under the method of q
ShadowedByStatic(q) ==
    /\ q.path # <<>>
    /\ StaticNodeOf(q.path) \in DOMAIN router.root
    /\ DOMAIN router.root[StaticNodeOf(q.path)].handlers # {}
    /\ q.method \notin DOMAIN router.root[StaticNodeOf(q.path)].handlers
    /\ \E node \in ParamNodesOf(q.path) : q.method \in DOMAIN router.root[node].handlers

\* C29: trie precedence is decided without regard to the request method. If a
\* static route exists for the request path only under method M1 and a
\* parameter route covering the same path exists only under method M2,
\* Router.match(M2, path) returns null and the request is answered 405 rather
\* than being dispatched to the parameter route.
C29_MethodBlindPrecedence ==
    \A r \in DOMAIN requests :
        LET q == requests[r]
        IN  (q.pc = "done" /\ Routed(q) /\ ShadowedByStatic(q)) =>
                /\ match(router, q.method, q.path) = null
                /\ q.frames = <<>>
                /\ q.handlerCalls = <<>>
                /\ q.response[1].status = 405

(***************************************************************************)
(* The wildcard and the prefix it hangs under                              *)
(***************************************************************************)
\* the nodes on the way from the root to node, node itself excluded
Ancestors(node) == { SubSeq(node, 1, k) : k \in 0..(Len(node) - 1) }

\* the path of q spells a static node that holds no handler and whose only
\* continuation is a wildcard with a route; no parameter or wildcard route
\* higher up stands in for a segment of the path
WildcardOnlyUnder(q) ==
    /\ q.path # <<>>
    /\ matchSegments(q.path) # <<>>
    /\ StaticNodeOf(q.path) \in DOMAIN router.root
    /\ LET node == StaticNodeOf(q.path)
       IN  /\ DOMAIN router.root[node].handlers = {}
           /\ router.root[node].wildcardChild
           /\ DOMAIN router.root[Append(node, WildcardEdge)].handlers # {}
           /\ \A a \in Ancestors(node) :
                 /\ router.root[a].paramChild = <<>>
                 /\ ~router.root[a].wildcardChild

\* C30: a wildcard segment needs at least one remaining request segment. When
\* the only route under a prefix is prefix/*, Router.match for the prefix
\* itself, with or without a trailing slash, returns null under every method
\* and the request is answered 404.
C30_WildcardNeedsASegment ==
    \A r \in DOMAIN requests :
        LET q == requests[r]
        IN  (q.pc = "done" /\ Routed(q) /\ WildcardOnlyUnder(q)) =>
                /\ \A method \in Methods :
                      /\ match(router, method, q.path) = null
                      /\ match(router, method, addTrailingSlash(q.path)) = null
                /\ q.handlerCalls = <<>>
                /\ q.response[1].status = 404

C30_Witness ==
    \E r \in DOMAIN requests :
        LET q == requests[r]
        IN  /\ q.pc = "done"
            /\ Routed(q)
            /\ WildcardOnlyUnder(q)
            /\ q.path = Slash \o files \o Slash
            /\ q.method = "GET"
            /\ match(router, "GET", Slash \o files \o Slash \o <<"a">>) # null
            /\ q.response[1].status = 404

====
